---- MODULE Spec2Model ----
(***************************************************************************)
(* RBAC permission and menu resolution of the FastAPI admin backend        *)
(* (apps/fastapi/app): the identity store (users, roles, features, menus   *)
(* and the three association tables), the resolver                         *)
(* resolve_user_permissions_and_menus, the menu tree builder               *)
(* build_menu_tree, the full-replace assignment endpoints and menu CRUD.   *)
(*                                                                         *)
(* Conventions                                                             *)
(*   - a table is a sequence of rows; row i has id i (autoincrement);      *)
(*   - an association table is a set of <<owner_id, target_id>> pairs      *)
(*     (composite primary key, the audit columns are not modelled);        *)
(*   - a string that the code transforms (role codes, lower()) is a        *)
(*     sequence of one-character strings; other strings are TLA+ strings;  *)
(*   - a list returned by a query without ORDER BY is given in ascending   *)
(*     id order (no modelled code reads the order of such a list, except   *)
(*     build_menu_tree, whose input order is drawn in SpecTree).           *)
(***************************************************************************)
EXTENDS Integers, Sequences, FiniteSets, TLC

VARIABLES
    users,          \* table users:    id -> [id, tenant_id, role, is_deleted]
    roles,          \* table roles:    id -> [id, tenant_id, code, is_active, is_deleted]
    features,       \* table features: id -> [id, code, is_active, is_deleted]
    menus,          \* table menus:    id -> [id, tenant_id, parent_id, sort_order, level, is_active, is_deleted]
    user_roles,     \* association user <-> role:    set of <<user_id, role_id>>
    role_features,  \* association role <-> feature: set of <<role_id, feature_id>>
    role_menus,     \* association role <-> menu:    set of <<role_id, menu_id>>
    tenants,        \* table tenants:  id -> [id, code, is_active, is_deleted]
    schema,         \* how the tables were created: by the models or by the migrations
    tree_input,     \* the list of menu rows handed to a direct call of build_menu_tree
    sessions,       \* the requests in flight: request -> its position, locals and transaction
    response        \* the last request answered and what it returned

vars == <<users, roles, features, menus, user_roles, role_features, role_menus,
          tenants, schema, tree_input, sessions, response>>

store == <<users, roles, features, menus, tenants, user_roles, role_features, role_menus,
           schema>>

(***************************************************************************)
(* Bounds of the model                                                     *)
(***************************************************************************)
MaxMenus == 3       \* menu rows in the menus table / in a build_menu_tree input
MaxSort == 2        \* sort_order values are 1..MaxSort
MaxRoles == 2       \* role rows drawn in SpecRoles
MaxFeatures == 2    \* feature rows drawn in SpecPerm
MaxIds == 2         \* length of the id list of an assignment request
MaxTenants == 3     \* rows of the tenants table in SpecTenantGate
MaxUsers == 3       \* rows of the users table in SpecRegister
MaxRoleRows == 3    \* rows of the roles table in SpecRoleCreate
MaxFeatureRows == 3 \* rows of the features table in SpecRecreate

(***************************************************************************)
(* Values                                                                  *)
(***************************************************************************)
\* SQL NULL / Python None in a nullable integer column (ids start at 1)
NULL == 0

\* the tenants a row may reference
TenantIds == {1, 2}

\* app.models.user.UserRole
UserRole == {"USER", "ADMIN", "SUPER_ADMIN"}

\* no request has been answered yet
NoResponse == [op |-> "none"]

\* the two ways the tables come to exist: Base.metadata.create_all at startup
\* builds them from the models, alembic upgrade from the migrations
Schemas == {"create_all", "alembic"}

\* the requests that may be in flight at the same time (two workers)
Requests == {1, 2}

\* a worker that handles no request
Idle == [kind |-> "idle"]

NoSessions == [k \in Requests |-> Idle]

Range(s) == {s[i] : i \in DOMAIN s}

\* all sequences over S of length at most n
SeqsUpTo(S, n) == UNION {[1..k -> S] : k \in 0..n}

(***************************************************************************)
(* Strings that the code lower-cases                                       *)
(***************************************************************************)
UpperChars == <<"A","B","C","D","E","F","G","H","I","J","K","L","M",
                "N","O","P","Q","R","S","T","U","V","W","X","Y","Z">>
LowerChars == <<"a","b","c","d","e","f","g","h","i","j","k","l","m",
                "n","o","p","q","r","s","t","u","v","w","x","y","z">>

\* str.lower() on one character
LowerChar(c) ==
    IF \E i \in DOMAIN UpperChars : UpperChars[i] = c
    THEN LowerChars[CHOOSE i \in DOMAIN UpperChars : UpperChars[i] = c]
    ELSE c

\* str.lower()
Lower(s) == [i \in DOMAIN s |-> LowerChar(s[i])]

\* core/dependencies.py: SYSTEM_ADMIN_ROLE_CODE = "SYSTEM_ADMIN"
SYSTEM_ADMIN_ROLE_CODE == <<"S","Y","S","T","E","M","_","A","D","M","I","N">>

\* the role codes the model stores in roles.code
RoleCodes ==
    { SYSTEM_ADMIN_ROLE_CODE,
      <<"s","y","s","t","e","m","_","a","d","m","i","n">>,
      <<"S","y","s","t","e","m","_","A","d","m","i","n">>,
      <<"S","Y","S","T","E","M","A","D","M","I","N">>,
      <<"M","A","N","A","G","E","R">> }

\* the feature codes, one per feature id (features.code is unique)
FeatureCodes == <<"ORDER_VIEW", "USER_VIEW", "USER_EDIT", "ORDER_EDIT">>

(***************************************************************************)
(* menu_service.build_menu_tree                                            *)
(***************************************************************************)
\* the sort key reduced to sort_order: ties keep the order of the input
KeyLessBySortOnly(a, b) == a.sort_order < b.sort_order

\* the sort key of build_menu_tree: (m.sort_order, m.id), compared as tuples
KeyLess(a, b) ==
    \/ a.sort_order < b.sort_order
    \/ a.sort_order = b.sort_order /\ a.id < b.id

\* list.sort(key=...) : a stable sort, here by insertion
RECURSIVE SortByKey(_)
SortByKey(list) ==
    IF list = <<>> THEN <<>>
    ELSE LET rest == SortByKey(SubSeq(list, 1, Len(list) - 1))
             x == list[Len(list)]
             \* x goes after every element that is not greater than it
             k == Cardinality({i \in DOMAIN rest : ~KeyLess(x, rest[i])})
         IN  SubSeq(rest, 1, k) \o <<x>> \o SubSeq(rest, k + 1, Len(rest))

\* by_parent[p] after the grouping loop and the sort
by_parent(rows, p) == SortByKey(SelectSeq(rows, LAMBDA m : m.parent_id = p))

\* to_node: a MenuNode with the nodes of the rows whose parent_id is menu.id
RECURSIVE to_node(_, _)
to_node(rows, menu) ==
    LET kids == by_parent(rows, menu.id)
    IN  [id |-> menu.id,
         children |-> [i \in DOMAIN kids |-> to_node(rows, kids[i])]]

\* a tree builder that returns every row as a root
build_menu_tree_every_row(rows) ==
    LET roots == SortByKey(rows)
    IN  [i \in DOMAIN roots |-> [id |-> roots[i].id, children |-> <<>>]]

\* a tree builder that promotes a row whose parent is not in the list to a root
build_menu_tree_orphans_as_roots(rows) ==
    LET present == {rows[i].id : i \in DOMAIN rows}
        roots == SortByKey(SelectSeq(rows, LAMBDA m : m.parent_id \notin present))
    IN  [i \in DOMAIN roots |-> to_node(rows, roots[i])]

build_menu_tree(rows) ==
    LET roots == by_parent(rows, NULL)
    IN  [i \in DOMAIN roots |-> to_node(rows, roots[i])]

(***************************************************************************)
(* rbac_service: role resolver and permission / menu aggregation           *)
(***************************************************************************)
\* a role resolver that also requires is_active
get_user_roles_active_only(user_id) ==
    SelectSeq(roles, LAMBDA r : /\ <<user_id, r.id>> \in user_roles
                                /\ r.is_deleted = FALSE
                                /\ r.is_active = TRUE)

\* a role resolver without the is_deleted filter
get_user_roles_with_deleted(user_id) ==
    SelectSeq(roles, LAMBDA r : <<user_id, r.id>> \in user_roles)

\* get_user_roles: the roles joined to the user through user_roles,
\* filtered to is_deleted = false (is_active is not looked at)
get_user_roles(user_id) ==
    SelectSeq(roles, LAMBDA r : <<user_id, r.id>> \in user_roles /\ r.is_deleted = FALSE)

\* role_ids = [r.id for r in roles]
RoleIdsOf(rs) == [i \in DOMAIN rs |-> rs[i].id]

\* role_codes = [r.code.lower() for r in roles]
RoleCodesOf(rs) == [i \in DOMAIN rs |-> Lower(rs[i].code)]

\* a super-admin test that forgets the tenant of a legacy ADMIN
is_super_admin_any_admin(user, role_codes) ==
    \/ user.role = "SUPER_ADMIN"
    \/ user.role = "ADMIN"
    \/ Lower(SYSTEM_ADMIN_ROLE_CODE) \in Range(role_codes)

\* the is_super_admin expression of resolve_user_permissions_and_menus
is_super_admin(user, role_codes) ==
    \/ user.role = "SUPER_ADMIN"
    \/ user.role = "ADMIN" /\ user.tenant_id = NULL
    \/ Lower(SYSTEM_ADMIN_ROLE_CODE) \in Range(role_codes)

\* a query without distinct()
DistinctKeepingAll(rows) == rows

\* Query.distinct(): every row once, first occurrence kept
RECURSIVE Distinct(_)
Distinct(rows) ==
    IF rows = <<>> THEN <<>>
    ELSE LET init == Distinct(SubSeq(rows, 1, Len(rows) - 1))
             x == rows[Len(rows)]
         IN  IF x \in Range(init) THEN init ELSE Append(init, x)

\* the rows of `table` joined to the association `assoc` on target id = row id,
\* restricted to role_id IN role_ids: one joined row per association row
RECURSIVE JoinRoles(_, _, _)
JoinRoles(table, assoc, role_ids) ==
    IF table = <<>> THEN <<>>
    ELSE LET row == table[Len(table)]
             links == SelectSeq(role_ids, LAMBDA rid : <<rid, row.id>> \in assoc)
         IN  JoinRoles(SubSeq(table, 1, Len(table) - 1), assoc, role_ids)
             \o [i \in DOMAIN links |-> row]

\* a filter without the is_deleted condition
ActiveRowsKeepingDeleted(rows) == SelectSeq(rows, LAMBDA x : x.is_active = TRUE)

\* a filter without the is_active condition
ActiveRowsIgnoringActive(rows) == SelectSeq(rows, LAMBDA x : x.is_deleted = FALSE)

\* filter(X.is_deleted == False, X.is_active == True)
ActiveRows(rows) ==
    SelectSeq(rows, LAMBDA x : x.is_deleted = FALSE /\ x.is_active = TRUE)

\* the "Resolve feature codes" block: the Feature rows of the three branches
ResolveFeatures(super, role_ids) ==
    IF super THEN ActiveRows(features)
    ELSE IF role_ids # <<>>
         THEN Distinct(ActiveRows(JoinRoles(features, role_features, role_ids)))
         ELSE <<>>

\* a tenant filter that shows every menu to a user without a tenant
TenantFilterGlobalSeesAll(rows, user) ==
    SelectSeq(rows, LAMBDA m : \/ user.tenant_id = NULL
                               \/ m.tenant_id = NULL
                               \/ m.tenant_id = user.tenant_id)

\* the list comprehension applied to menu_rows in both branches:
\* keep m iff m.tenant_id is None or m.tenant_id == user.tenant_id
TenantFilter(rows, user) ==
    SelectSeq(rows, LAMBDA m : m.tenant_id = NULL \/ m.tenant_id = user.tenant_id)

\* the "Resolve menus" block: menu_rows of the three branches
ResolveMenuRows(super, role_ids, user) ==
    IF super THEN TenantFilter(ActiveRows(menus), user)
    ELSE IF role_ids # <<>>
         THEN TenantFilter(Distinct(ActiveRows(JoinRoles(menus, role_menus, role_ids))), user)
         ELSE <<>>

\* resolve_user_permissions_and_menus(db, user): (feature_codes, menu_tree),
\* with the is_super_admin value it logs
resolve_user_permissions_and_menus(user) ==
    LET rs == get_user_roles(user.id)
        role_ids == RoleIdsOf(rs)
        super == is_super_admin(user, RoleCodesOf(rs))
        feats == ResolveFeatures(super, role_ids)
        menu_rows == ResolveMenuRows(super, role_ids, user)
    IN  [is_super_admin |-> super,
         permissions |-> [i \in DOMAIN feats |-> feats[i].code],
         menus |-> IF menu_rows # <<>> THEN build_menu_tree(menu_rows) ELSE <<>>]

(***************************************************************************)
(* Actions shared by the specifications                                    *)
(***************************************************************************)
\* a resolution that removes the user_roles rows of soft-deleted roles it meets
ResolvePruning(uid) ==
    /\ uid \in DOMAIN users
    /\ response' = [op |-> "resolve", user_id |-> uid]
                   @@ resolve_user_permissions_and_menus(users[uid])
    /\ user_roles' = {row \in user_roles : row[1] # uid \/ ~roles[row[2]].is_deleted}
    /\ UNCHANGED <<users, roles, features, menus, tenants, role_features, role_menus,
                   schema, tree_input, sessions>>

\* a call of resolve_user_permissions_and_menus for a row of the users table
Resolve(uid) ==
    /\ uid \in DOMAIN users
    /\ response' = [op |-> "resolve", user_id |-> uid]
                   @@ resolve_user_permissions_and_menus(users[uid])
    /\ UNCHANGED <<store, tree_input, sessions>>

\* a direct call of build_menu_tree on the list tree_input
BuildTree ==
    /\ response' = [op |-> "build_menu_tree", menus |-> build_menu_tree(tree_input)]
    /\ UNCHANGED <<store, tree_input, sessions>>

(***************************************************************************)
(* Rows                                                                    *)
(***************************************************************************)
UserRow(i, t, r) == [id |-> i, tenant_id |-> t, role |-> r, is_deleted |-> FALSE]

RoleRow(i, t, c, del) ==
    [id |-> i, tenant_id |-> t, code |-> c, is_active |-> TRUE, is_deleted |-> del]

FeatureRow(i, act, del) ==
    [id |-> i, code |-> FeatureCodes[i], is_active |-> act, is_deleted |-> del]

MenuRow(i, t, p, s, act, del) ==
    [id |-> i, tenant_id |-> t, parent_id |-> p, sort_order |-> s,
     level |-> IF p = NULL THEN 1 ELSE 2, is_active |-> act, is_deleted |-> del]

\* the tenant codes, one per tenant id (tenants.code is unique)
TenantCodes == <<"ACME", "GLOBEX", "INITECH", "UMBRELLA">>

TenantRow(i, act, del) ==
    [id |-> i, code |-> TenantCodes[i], is_active |-> act, is_deleted |-> del]

\* the tenants the rows of the seeded tables refer to
SeedTenants == <<TenantRow(1, TRUE, FALSE), TenantRow(2, TRUE, FALSE)>>

(***************************************************************************)
(* SpecTree: build_menu_tree on every list of at most MaxMenus rows with   *)
(* distinct ids, any parent_id among NULL and the ids (dangling and cyclic *)
(* references included), any sort_order, in ascending and descending id    *)
(* order and every rotation of these.                                      *)
(***************************************************************************)
Rotate(s, k) == [i \in DOMAIN s |-> s[((i + k - 1) % Len(s)) + 1]]

Reverse(s) == [i \in DOMAIN s |-> s[Len(s) + 1 - i]]

Orders(s) ==
    IF s = <<>> THEN {s}
    ELSE {Rotate(s, k) : k \in 0..(Len(s) - 1)} \cup {Rotate(Reverse(s), k) : k \in 0..(Len(s) - 1)}

EmptyStore ==
    /\ users = <<>>
    /\ roles = <<>>
    /\ features = <<>>
    /\ menus = <<>>
    /\ user_roles = {}
    /\ role_features = {}
    /\ role_menus = {}
    /\ tenants = <<>>

InitTree ==
    /\ EmptyStore
    /\ \E n \in 0..MaxMenus :
         \E ps \in [1..n -> 0..n], ss \in [1..n -> 1..MaxSort] :
            tree_input \in Orders([i \in 1..n |-> MenuRow(i, NULL, ps[i], ss[i], TRUE, FALSE)])
    /\ schema = "alembic"
    /\ sessions = NoSessions
    /\ response = NoResponse

NextTree == BuildTree

SpecTree == InitTree /\ [][NextTree]_vars

(***************************************************************************)
(* Stores drawn for the resolver.  resolve_user_permissions_and_menus is a *)
(* function of the store and the user row, so each specification below     *)
(* draws one part of the store from a bounded set of contents the          *)
(* database constraints allow, seeds the rest, and applies Resolve.        *)
(***************************************************************************)
\* users.tenant_id / menus.tenant_id: nullable reference to a tenant
TenantRefs == {NULL} \cup TenantIds

\* role i of a drawn roles table belongs to tenant i - 1 (the first is global),
\* so that any choice of codes satisfies uq_roles_tenant_code
RoleTenant(i) == i - 1

SeedFeatures == <<FeatureRow(1, TRUE, FALSE), FeatureRow(2, TRUE, FALSE)>>

\* a global root and a global child of it
SeedMenus ==
    <<MenuRow(1, NULL, NULL, 1, TRUE, FALSE), MenuRow(2, NULL, 1, 1, TRUE, FALSE)>>

\* SpecRoles: one user of any legacy role and tenant; up to MaxRoles roles of
\* any code, deleted or not; any assignment of them to the user
InitRoles ==
    /\ \E t \in TenantRefs, r \in UserRole : users = <<UserRow(1, t, r)>>
    /\ \E n \in 0..MaxRoles :
         /\ \E cs \in [1..n -> RoleCodes], ds \in [1..n -> BOOLEAN] :
              roles = [i \in 1..n |-> RoleRow(i, RoleTenant(i), cs[i], ds[i])]
         /\ user_roles \in SUBSET ({1} \X (1..n))
         /\ role_features = (1..n) \X {1}
         /\ role_menus = (1..n) \X {1, 2}
    /\ features = SeedFeatures
    /\ menus = SeedMenus
    /\ tenants = SeedTenants
    /\ tree_input = <<>>
    /\ schema = "alembic"
    /\ sessions = NoSessions
    /\ response = NoResponse

NextResolve == \E uid \in DOMAIN users : Resolve(uid)

SpecRoles == InitRoles /\ [][NextResolve]_vars

\* two roles that are not the system-admin role; the second may be soft-deleted
ManagerCode == <<"M","A","N","A","G","E","R">>

SeedRoles(del2) ==
    <<RoleRow(1, NULL, ManagerCode, FALSE), RoleRow(2, 1, ManagerCode, del2)>>

\* SpecPerm: one user of any legacy role, global or of tenant 1; the seed roles
\* in any assignment; up to MaxFeatures features with any flags, granted to
\* the roles in any way
InitPerm ==
    /\ \E t \in {NULL, 1}, r \in UserRole : users = <<UserRow(1, t, r)>>
    /\ \E d \in BOOLEAN : roles = SeedRoles(d)
    /\ user_roles \in SUBSET ({1} \X {1, 2})
    /\ \E n \in 0..MaxFeatures :
         /\ \E as \in [1..n -> BOOLEAN], ds \in [1..n -> BOOLEAN] :
              features = [i \in 1..n |-> FeatureRow(i, as[i], ds[i])]
         /\ role_features \in SUBSET ({1, 2} \X (1..n))
    /\ menus = SeedMenus
    /\ role_menus = {1, 2} \X {1, 2}
    /\ tenants = SeedTenants
    /\ tree_input = <<>>
    /\ schema = "alembic"
    /\ sessions = NoSessions
    /\ response = NoResponse

SpecPerm == InitPerm /\ [][NextResolve]_vars

\* sort_order of the drawn menu i
SeedSort(i) == (i % MaxSort) + 1

\* menus.tenant_id of a drawn menu: global or of the second tenant (a user of
\* tenant 2 owns it, a global user or a user of tenant 1 does not)
MenuTenants == {NULL, 2}

\* SpecMenu: one user of any legacy role and tenant, holding the manager role
\* or not; up to MaxMenus active menus, each global or of a tenant, each a
\* root or the child of an earlier menu (parent_id is a foreign key set at
\* creation and never updated); any grant of menus to the role
InitMenu ==
    /\ \E t \in TenantRefs, r \in UserRole : users = <<UserRow(1, t, r)>>
    /\ roles = <<RoleRow(1, NULL, ManagerCode, FALSE)>>
    /\ user_roles \in SUBSET {<<1, 1>>}
    /\ features = SeedFeatures
    /\ role_features = {<<1, 1>>}
    /\ \E n \in 0..MaxMenus :
         /\ \E ts \in [1..n -> MenuTenants], ps \in [1..n -> 0..(n - 1)] :
              /\ \A i \in 1..n : ps[i] < i
              /\ menus = [i \in 1..n |-> MenuRow(i, ts[i], ps[i], SeedSort(i), TRUE, FALSE)]
         /\ role_menus \in SUBSET ({1} \X (1..n))
    /\ tenants = SeedTenants
    /\ tree_input = <<>>
    /\ schema = "alembic"
    /\ sessions = NoSessions
    /\ response = NoResponse

SpecMenu == InitMenu /\ [][NextResolve]_vars

(***************************************************************************)
(* The database session of a request (core/database.py) on one            *)
(* association table: `committed` is what the database holds, `pending`    *)
(* what the session's open transaction sees, `failed` whether a statement  *)
(* raised IntegrityError.                                                  *)
(***************************************************************************)
\* SessionLocal(): autocommit=False, the first statement opens a transaction
Begin(table) == [committed |-> table, pending |-> table, failed |-> FALSE]

\* a delete statement without its where clause
ExecDeleteAll(s, owner) ==
    [s EXCEPT !.pending = {}]

\* db.execute(table.delete().where(owner column == owner))
ExecDelete(s, owner) ==
    [s EXCEPT !.pending = {row \in s.pending : row[1] # owner}]

\* db.execute(table.insert(), values): the rows are inserted in order; a row
\* that repeats a primary key or references a missing owner or target row
\* raises IntegrityError and ends the statement
RECURSIVE ExecInsert(_, _, _, _)
ExecInsert(s, values, owner_ids, target_ids) ==
    IF values = <<>> THEN s
    ELSE LET row == Head(values)
         IN  IF \/ row \in s.pending
                \/ row[1] \notin owner_ids
                \/ row[2] \notin target_ids
             THEN [s EXCEPT !.failed = TRUE]
             ELSE ExecInsert([s EXCEPT !.pending = s.pending \cup {row}],
                             Tail(values), owner_ids, target_ids)

\* db.commit()
Commit(s) == [s EXCEPT !.committed = s.pending]

\* a session close that keeps what the open transaction wrote
CloseKeepingPending(s) == s.pending

\* get_db: finally db.close(), which rolls an open transaction back; the
\* table the database holds once the request has ended
Close(s) == s.committed

\* a replacement that inserts without clearing the owner's rows first
ReplaceWithoutDelete(table, owner, ids, owner_ids, target_ids) ==
    LET s2 == IF ids # <<>>
              THEN ExecInsert(Begin(table), [i \in DOMAIN ids |-> <<owner, ids[i]>>],
                              owner_ids, target_ids)
              ELSE Begin(table)
    IN  IF s2.failed THEN s2 ELSE Commit(s2)

\* the body shared by set_user_roles, set_role_menus and set_role_features:
\* delete the owner's rows, insert one row per id if there is any, commit;
\* an exception of the insert leaves the function before the commit
Replace(table, owner, ids, owner_ids, target_ids) ==
    LET s1 == ExecDelete(Begin(table), owner)
        s2 == IF ids # <<>>
              THEN ExecInsert(s1, [i \in DOMAIN ids |-> <<owner, ids[i]>>],
                              owner_ids, target_ids)
              ELSE s1
    IN  IF s2.failed THEN s2 ELSE Commit(s2)

\* rbac_service.set_user_roles(db, user, role_ids): the session it leaves
set_user_roles(user_id, role_ids) ==
    Replace(user_roles, user_id, role_ids, DOMAIN users, DOMAIN roles)

\* rbac_service.set_role_menus(db, role, menu_ids)
set_role_menus(role_id, menu_ids) ==
    Replace(role_menus, role_id, menu_ids, DOMAIN roles, DOMAIN menus)

\* rbac_service.set_role_features(db, role, feature_ids)
set_role_features(role_id, feature_ids) ==
    Replace(role_features, role_id, feature_ids, DOMAIN roles, DOMAIN features)

\* user_service.get_user / role_service.get_role / menu_service.get_menu /
\* feature_service.get_feature: the row exists and is not soft-deleted
Found(table, id) == id \in DOMAIN table /\ table[id].is_deleted = FALSE

\* the response of an assignment request: 204, or 409 from the IntegrityError
\* handler, or 404 from a NotFoundException
AssignResponse(name, owner, ids, status) ==
    [op |-> name, owner |-> owner, ids |-> ids, status |-> status]

(***************************************************************************)
(* routers/rbac.py: the assignment endpoints, for a caller that has passed *)
(* require_admin                                                           *)
(***************************************************************************)
\* POST /rbac/users/{user_id}/roles
RbacSetUserRoles(user_id, role_ids) ==
    /\ IF ~Found(users, user_id)
       THEN /\ response' = AssignResponse("set_user_roles", user_id, role_ids, 404)
            /\ UNCHANGED user_roles
       ELSE LET s == set_user_roles(user_id, role_ids)
            IN  /\ user_roles' = Close(s)
                /\ response' = AssignResponse("set_user_roles", user_id, role_ids,
                                              IF s.failed THEN 409 ELSE 204)
    /\ UNCHANGED <<users, roles, features, menus, role_features, role_menus, tenants, schema, tree_input, sessions>>

\* POST /rbac/roles/{role_id}/menus
RbacSetRoleMenus(role_id, menu_ids) ==
    /\ IF ~Found(roles, role_id) \/ \E i \in DOMAIN menu_ids : ~Found(menus, menu_ids[i])
       THEN /\ response' = AssignResponse("set_role_menus", role_id, menu_ids, 404)
            /\ UNCHANGED role_menus
       ELSE LET s == set_role_menus(role_id, menu_ids)
            IN  /\ role_menus' = Close(s)
                /\ response' = AssignResponse("set_role_menus", role_id, menu_ids,
                                              IF s.failed THEN 409 ELSE 204)
    /\ UNCHANGED <<users, roles, features, menus, user_roles, role_features, tenants, schema, tree_input, sessions>>

\* POST /rbac/roles/{role_id}/features
RbacSetRoleFeatures(role_id, feature_ids) ==
    /\ IF ~Found(roles, role_id) \/ \E i \in DOMAIN feature_ids : ~Found(features, feature_ids[i])
       THEN /\ response' = AssignResponse("set_role_features", role_id, feature_ids, 404)
            /\ UNCHANGED role_features
       ELSE LET s == set_role_features(role_id, feature_ids)
            IN  /\ role_features' = Close(s)
                /\ response' = AssignResponse("set_role_features", role_id, feature_ids,
                                              IF s.failed THEN 409 ELSE 204)
    /\ UNCHANGED <<users, roles, features, menus, user_roles, role_menus, tenants, schema, tree_input, sessions>>

(***************************************************************************)
(* SpecAssign: the assignment endpoints on a store of two users, two       *)
(* roles, two features and two menus, one association table holding any   *)
(* rows over these; a request carries a list of at most MaxIds ids that    *)
(* may repeat an id or name a row that does not exist, and it may be sent  *)
(* again.                                                                  *)
(***************************************************************************)
AssignUsers == <<UserRow(1, 1, "USER"), UserRow(2, NULL, "ADMIN")>>

\* the ids a request may name for a table: its rows and one id beyond them
IdsAround(table) == 1..(Len(table) + 1)

\* the rows an association table holds when it is not the one drawn
SeedLinks == {<<1, 1>>, <<2, 2>>}

\* one association table holds any rows, the two others the seed rows
InitAssign ==
    /\ users = AssignUsers
    /\ roles = SeedRoles(FALSE)
    /\ features = SeedFeatures
    /\ menus = SeedMenus
    /\ \E drawn \in SUBSET ({1, 2} \X {1, 2}) :
         \/ user_roles = drawn /\ role_features = SeedLinks /\ role_menus = SeedLinks
         \/ user_roles = SeedLinks /\ role_features = drawn /\ role_menus = SeedLinks
         \/ user_roles = SeedLinks /\ role_features = SeedLinks /\ role_menus = drawn
    /\ tenants = SeedTenants
    /\ tree_input = <<>>
    /\ schema = "alembic"
    /\ sessions = NoSessions
    /\ response = NoResponse

\* the first request, or the last request sent again
FirstOrAgain(name, owner, ids) ==
    \/ response = NoResponse
    \/ response.op = name /\ response.owner = owner /\ response.ids = ids

NextAssign ==
    \/ \E u \in IdsAround(users), ids \in SeqsUpTo(IdsAround(roles), MaxIds) :
          FirstOrAgain("set_user_roles", u, ids) /\ RbacSetUserRoles(u, ids)
    \/ \E r \in IdsAround(roles), ids \in SeqsUpTo(IdsAround(menus), MaxIds) :
          FirstOrAgain("set_role_menus", r, ids) /\ RbacSetRoleMenus(r, ids)
    \/ \E r \in IdsAround(roles), ids \in SeqsUpTo(IdsAround(features), MaxIds) :
          FirstOrAgain("set_role_features", r, ids) /\ RbacSetRoleFeatures(r, ids)

SpecAssign == InitAssign /\ [][NextAssign]_vars

(***************************************************************************)
(* menu_service / routers/menu.py: menu CRUD, for a caller that has passed *)
(* require_admin                                                           *)
(***************************************************************************)
\* the constraints of the menus table (alembic add_rbac_models): ck_menus_level,
\* ck_menus_hierarchy and the foreign key of parent_id
MenuConstraints(row) ==
    /\ row.level \in {1, 2}
    /\ \/ row.level = 1 /\ row.parent_id = NULL
       \/ row.level = 2 /\ row.parent_id # NULL
    /\ row.parent_id = NULL \/ row.parent_id \in DOMAIN menus

\* POST /menus/ -> create_menu: the row is built from the request as it is and
\* inserted by db.commit(); a violated constraint raises IntegrityError (409)
CreateMenu(data) ==
    LET row == [id |-> Len(menus) + 1, tenant_id |-> data.tenant_id,
                parent_id |-> data.parent_id, sort_order |-> data.sort_order,
                level |-> data.level, is_active |-> data.is_active,
                is_deleted |-> FALSE]
    IN  /\ IF MenuConstraints(row)
           THEN /\ menus' = Append(menus, row)
                /\ response' = [op |-> "create_menu", status |-> 201, id |-> row.id]
           ELSE /\ menus' = menus
                /\ response' = [op |-> "create_menu", status |-> 409, id |-> NULL]
        /\ UNCHANGED <<users, roles, features, user_roles, role_features, role_menus,
                       tenants, schema, tree_input, sessions>>

\* PUT /menus/{menu_id} -> update_menu with data.is_active set and the other
\* fields of MenuUpdate left None
UpdateMenu(menu_id, is_active) ==
    /\ IF Found(menus, menu_id)
       THEN /\ menus' = [menus EXCEPT ![menu_id].is_active = is_active]
            /\ response' = [op |-> "update_menu", status |-> 200, id |-> menu_id]
       ELSE /\ menus' = menus
            /\ response' = [op |-> "update_menu", status |-> 404, id |-> menu_id]
    /\ UNCHANGED <<users, roles, features, user_roles, role_features, role_menus,
                   tenants, schema, tree_input, sessions>>

\* DELETE /menus/{menu_id} -> soft_delete_menu: only the row itself is marked
SoftDeleteMenu(menu_id) ==
    /\ IF Found(menus, menu_id)
       THEN /\ menus' = [menus EXCEPT ![menu_id].is_deleted = TRUE]
            /\ response' = [op |-> "soft_delete_menu", status |-> 204, id |-> menu_id]
       ELSE /\ menus' = menus
            /\ response' = [op |-> "soft_delete_menu", status |-> 404, id |-> menu_id]
    /\ UNCHANGED <<users, roles, features, user_roles, role_features, role_menus,
                   tenants, schema, tree_input, sessions>>

(***************************************************************************)
(* SpecMenuCrud: menu CRUD from an empty menus table, up to MaxMenus       *)
(* global menus of default sort_order, and resolution for a system         *)
(* administrator (legacy role ADMIN, no tenant).                           *)
(***************************************************************************)
\* the requests of POST /menus/: any level from 1 to 3, any parent_id among
\* None and the ids up to MaxMenus
MenuCreateRequests ==
    [tenant_id : {NULL}, parent_id : 0..MaxMenus, level : 1..3, sort_order : {0},
     is_active : BOOLEAN]

InitMenuCrud ==
    /\ users = <<UserRow(1, NULL, "ADMIN")>>
    /\ roles = <<RoleRow(1, NULL, ManagerCode, FALSE)>>
    /\ features = SeedFeatures
    /\ menus = <<>>
    /\ user_roles = {}
    /\ role_features = {<<1, 1>>}
    /\ role_menus = {}
    /\ tenants = SeedTenants
    /\ tree_input = <<>>
    /\ schema = "alembic"
    /\ sessions = NoSessions
    /\ response = NoResponse

NextMenuCrud ==
    \/ \E data \in MenuCreateRequests : Len(menus) < MaxMenus /\ CreateMenu(data)
    \/ \E id \in 1..MaxMenus, a \in BOOLEAN : UpdateMenu(id, a)
    \/ \E id \in 1..MaxMenus : SoftDeleteMenu(id)
    \/ \E uid \in DOMAIN users : Resolve(uid)

SpecMenuCrud == InitMenuCrud /\ [][NextMenuCrud]_vars

(***************************************************************************)
(* Requests in flight.  Each worker runs one request at a time on its own  *)
(* session (get_db); the steps of two requests interleave at the           *)
(* statements they send to the database.  The database runs at its default *)
(* isolation level, READ COMMITTED: a statement reads the rows committed   *)
(* at the instant it runs; the rows a transaction has written stay in its  *)
(* write set, locked against other transactions, until it commits or       *)
(* rolls back.  sessions[k] holds the position (pc), the arguments, the    *)
(* local variables and the write set of the request of worker k; a         *)
(* request that has been answered stays there with pc = "done".            *)
(***************************************************************************)
AssignOps == {"set_user_roles", "set_role_menus", "set_role_features"}

\* a transaction that has written nothing
TxBegin == [deleted |-> {}, inserted |-> {}, failed |-> FALSE]

\* the rows a transaction reads: the committed rows with its own writes applied
TxView(table, tx) == (table \ tx.deleted) \cup tx.inserted

\* the association table an assignment operation replaces rows of
AssocOf(kind) ==
    CASE kind = "set_user_roles" -> user_roles
      [] kind = "set_role_menus" -> role_menus
      [] kind = "set_role_features" -> role_features

\* the tables of the owner and of the targets of an assignment operation
OwnersOf(kind) == IF kind = "set_user_roles" THEN users ELSE roles

TargetsTableOf(kind) ==
    CASE kind = "set_user_roles" -> roles
      [] kind = "set_role_menus" -> menus
      [] kind = "set_role_features" -> features

\* the association table of `kind` becomes `table`, the two others stay
SetAssoc(kind, table) ==
    /\ user_roles' = IF kind = "set_user_roles" THEN table ELSE user_roles
    /\ role_menus' = IF kind = "set_role_menus" THEN table ELSE role_menus
    /\ role_features' = IF kind = "set_role_features" THEN table ELSE role_features

\* a delete statement that is committed on its own
StmtDeleteAutocommit(table, tx, owner) ==
    [table |-> {row \in table : row[1] # owner},
     tx |-> [tx EXCEPT !.deleted = @ \cup {row \in table : row[1] = owner},
                       !.inserted = {row \in @ : row[1] # owner}]]

\* db.execute(table.delete().where(owner column == owner)) on a session with
\* autocommit=False: the rows go to the write set, the table others read stays
StmtDelete(table, tx, owner) ==
    [table |-> table,
     tx |-> [tx EXCEPT !.deleted = @ \cup {row \in table : row[1] = owner},
                       !.inserted = {row \in @ : row[1] # owner}]]

\* db.execute(table.insert(), values) in the open transaction
StmtInsert(table, tx, values, owner_ids, target_ids) ==
    LET s == ExecInsert([committed |-> table, pending |-> TxView(table, tx),
                         failed |-> FALSE], values, owner_ids, target_ids)
    IN  [tx EXCEPT !.inserted = s.pending \ (table \ tx.deleted), !.failed = s.failed]

\* the transaction of request j is open and has written rows
HoldsLocks(j) ==
    /\ sessions[j].kind \in AssignOps
    /\ \/ sessions[j].pc \in {"insert", "commit"}
       \/ sessions[j].pc = "close" /\ sessions[j].tx.failed

\* the rows of the table of `kind` that requests other than k hold locked
LockedRows(k, kind) ==
    UNION {sessions[j].tx.deleted \cup sessions[j].tx.inserted :
             j \in {x \in Requests \ {k} : HoldsLocks(x) /\ sessions[x].kind = kind}}

\* the record of an assignment request
AssignSession(kind, owner, ids, pc, tx, status) ==
    [kind |-> kind, pc |-> pc, owner |-> owner, ids |-> ids, tx |-> tx, status |-> status]

\* an assignment request arrives at worker k: the router looks the owner up
\* (and, for menus and features, every target) and answers 404 if one is missing
StartAssign(k, kind, owner, ids) ==
    /\ sessions[k] = Idle
    /\ IF \/ ~Found(OwnersOf(kind), owner)
          \/ /\ kind # "set_user_roles"
             /\ \E i \in DOMAIN ids : ~Found(TargetsTableOf(kind), ids[i])
       THEN /\ sessions' = [sessions EXCEPT
                              ![k] = AssignSession(kind, owner, ids, "done", TxBegin, 404)]
            /\ response' = AssignResponse(kind, owner, ids, 404)
       ELSE /\ sessions' = [sessions EXCEPT
                              ![k] = AssignSession(kind, owner, ids, "delete", TxBegin, NULL)]
            /\ response' = response
    /\ UNCHANGED <<store, tree_input>>

\* the delete statement of the service function; it waits while another open
\* transaction holds a row of the owner
TxDelete(k) ==
    LET s == sessions[k]
        r == StmtDelete(AssocOf(s.kind), s.tx, s.owner)
    IN  /\ s.kind \in AssignOps
        /\ s.pc = "delete"
        /\ \A row \in LockedRows(k, s.kind) : row[1] # s.owner
        /\ SetAssoc(s.kind, r.table)
        /\ sessions' = [sessions EXCEPT
                          ![k] = [s EXCEPT !.tx = r.tx,
                                           !.pc = IF s.ids # <<>> THEN "insert" ELSE "commit"]]
        /\ UNCHANGED <<users, roles, features, menus, tenants, schema, tree_input, response>>

\* the insert statement (if values:); it waits while another open transaction
\* holds one of its rows; an IntegrityError leaves the function before db.commit()
TxInsert(k) ==
    LET s == sessions[k]
        values == [i \in DOMAIN s.ids |-> <<s.owner, s.ids[i]>>]
        tx == StmtInsert(AssocOf(s.kind), s.tx, values,
                         DOMAIN OwnersOf(s.kind), DOMAIN TargetsTableOf(s.kind))
    IN  /\ s.kind \in AssignOps
        /\ s.pc = "insert"
        /\ Range(values) \cap LockedRows(k, s.kind) = {}
        /\ sessions' = [sessions EXCEPT
                          ![k] = [s EXCEPT !.tx = tx,
                                           !.pc = IF tx.failed THEN "close" ELSE "commit"]]
        /\ UNCHANGED <<store, tree_input, response>>

\* db.commit(): the write set becomes the committed rows
TxCommit(k) ==
    LET s == sessions[k]
    IN  /\ s.kind \in AssignOps
        /\ s.pc = "commit"
        /\ SetAssoc(s.kind, TxView(AssocOf(s.kind), s.tx))
        /\ sessions' = [sessions EXCEPT ![k] = [s EXCEPT !.pc = "close"]]
        /\ UNCHANGED <<users, roles, features, menus, tenants, schema, tree_input, response>>

\* the request ends: get_db closes the session, which rolls back what was not
\* committed, and the request is answered 204, or 409 after an IntegrityError
TxClose(k) ==
    LET s == sessions[k]
        status == IF s.tx.failed THEN 409 ELSE 204
    IN  /\ s.kind \in AssignOps
        /\ s.pc = "close"
        /\ sessions' = [sessions EXCEPT ![k] = [s EXCEPT !.pc = "done", !.status = status]]
        /\ response' = AssignResponse(s.kind, s.owner, s.ids, status)
        /\ UNCHANGED <<store, tree_input>>

(***************************************************************************)
(* Requests that read: GET /rbac/users/{user_id}/roles and                 *)
(* POST /auth/login/context, statement by statement                        *)
(***************************************************************************)
\* GET /rbac/users/{user_id}/roles arrives at worker k: user_service.get_user
StartGetUserRoles(k, user_id) ==
    /\ sessions[k] = Idle
    /\ IF ~Found(users, user_id)
       THEN /\ sessions' = [sessions EXCEPT
                              ![k] = [kind |-> "get_user_roles", pc |-> "done",
                                      user_id |-> user_id, status |-> 404, role_ids |-> <<>>]]
            /\ response' = [op |-> "get_user_roles", user_id |-> user_id, status |-> 404]
       ELSE /\ sessions' = [sessions EXCEPT
                              ![k] = [kind |-> "get_user_roles", pc |-> "roles",
                                      user_id |-> user_id, status |-> NULL, role_ids |-> <<>>]]
            /\ response' = response
    /\ UNCHANGED <<store, tree_input>>

\* rbac_service.get_user_roles(db, user_id): one query; the roles are returned
GetUserRoles(k) ==
    LET s == sessions[k]
        role_ids == RoleIdsOf(get_user_roles(s.user_id))
    IN  /\ s.kind = "get_user_roles"
        /\ s.pc = "roles"
        /\ sessions' = [sessions EXCEPT
                          ![k] = [s EXCEPT !.pc = "done", !.status = 200, !.role_ids = role_ids]]
        /\ response' = [op |-> "get_user_roles", user_id |-> s.user_id, status |-> 200,
                        role_ids |-> role_ids]
        /\ UNCHANGED <<store, tree_input>>

\* the locals of login_with_context and of the resolver it calls
LoginSession(user_id, pc, status) ==
    [kind |-> "login", pc |-> pc, user_id |-> user_id, status |-> status,
     role_ids |-> <<>>, is_super_admin |-> FALSE, rows |-> <<>>, menu_rows |-> <<>>,
     roles |-> <<>>]

\* POST /auth/login/context arrives at worker k: get_user_by_email and
\* verify_password; 401 for an unknown or soft-deleted user or a wrong password
StartLogin(k, user_id, password_ok) ==
    /\ sessions[k] = Idle
    /\ IF ~Found(users, user_id) \/ ~password_ok
       THEN /\ sessions' = [sessions EXCEPT ![k] = LoginSession(user_id, "done", 401)]
            /\ response' = [op |-> "login_with_context", user_id |-> user_id, status |-> 401]
       ELSE /\ sessions' = [sessions EXCEPT ![k] = LoginSession(user_id, "roles", NULL)]
            /\ response' = response
    /\ UNCHANGED <<store, tree_input>>

\* resolve_user_permissions_and_menus, lines 81-92: the roles query, role_ids,
\* role_codes and is_super_admin
LoginRoles(k) ==
    LET s == sessions[k]
        rs == get_user_roles(s.user_id)
    IN  /\ s.kind = "login"
        /\ s.pc = "roles"
        /\ sessions' = [sessions EXCEPT
                          ![k] = [s EXCEPT !.pc = "features",
                                           !.role_ids = RoleIdsOf(rs),
                                           !.is_super_admin =
                                               is_super_admin(users[s.user_id], RoleCodesOf(rs))]]
        /\ UNCHANGED <<store, tree_input, response>>

\* lines 96-118: the features query
LoginFeatures(k) ==
    LET s == sessions[k]
    IN  /\ s.kind = "login"
        /\ s.pc = "features"
        /\ sessions' = [sessions EXCEPT
                          ![k] = [s EXCEPT !.pc = "menus",
                                           !.rows = ResolveFeatures(s.is_super_admin, s.role_ids)]]
        /\ UNCHANGED <<store, tree_input, response>>

\* lines 120-156: the menus query and the tenant filter
LoginMenus(k) ==
    LET s == sessions[k]
    IN  /\ s.kind = "login"
        /\ s.pc = "menus"
        /\ sessions' = [sessions EXCEPT
                          ![k] = [s EXCEPT !.pc = "roles_again",
                                           !.menu_rows =
                                               ResolveMenuRows(s.is_super_admin, s.role_ids,
                                                               users[s.user_id])]]
        /\ UNCHANGED <<store, tree_input, response>>

\* login_with_context, line 122: roles = [r.code for r in get_user_roles(...)],
\* a second roles query, and the response
LoginRolesAgain(k) ==
    LET s == sessions[k]
        rs == get_user_roles(s.user_id)
        codes == [i \in DOMAIN rs |-> rs[i].code]
    IN  /\ s.kind = "login"
        /\ s.pc = "roles_again"
        /\ sessions' = [sessions EXCEPT
                          ![k] = [s EXCEPT !.pc = "done", !.status = 200, !.roles = codes]]
        /\ response' = [op |-> "login_with_context", user_id |-> s.user_id, status |-> 200,
                        roles |-> codes,
                        permissions |-> [i \in DOMAIN s.rows |-> s.rows[i].code],
                        menus |-> IF s.menu_rows # <<>> THEN build_menu_tree(s.menu_rows)
                                  ELSE <<>>]
        /\ UNCHANGED <<store, tree_input>>

(***************************************************************************)
(* SpecRead: worker 1 runs one assignment request, worker 2 one reading    *)
(* request for user 1, their statements interleaved in every way.  The     *)
(* three association tables start with the same drawn rows.                *)
(***************************************************************************)
\* two roles of distinct codes, so that a role code names its role
ReadRoleCodes == <<ManagerCode, <<"C","L","E","R","K">>>>

InitRead ==
    /\ users = <<UserRow(1, NULL, "USER"), UserRow(2, 1, "USER")>>
    /\ roles = [i \in 1..2 |-> RoleRow(i, NULL, ReadRoleCodes[i], FALSE)]
    /\ features = SeedFeatures
    /\ menus = <<MenuRow(1, NULL, NULL, 1, TRUE, FALSE), MenuRow(2, NULL, NULL, 2, TRUE, FALSE)>>
    /\ \E drawn \in SUBSET ({1, 2} \X {1, 2}) :
         user_roles = drawn /\ role_features = drawn /\ role_menus = drawn
    /\ tenants = SeedTenants
    /\ tree_input = <<>>
    /\ schema = "alembic"
    /\ sessions = NoSessions
    /\ response = NoResponse

NextRead ==
    \/ \E kind \in AssignOps, owner \in IdsAround(roles) :
          \E ids \in SeqsUpTo(IdsAround(TargetsTableOf(kind)), MaxIds) :
             StartAssign(1, kind, owner, ids)
    \/ TxDelete(1)
    \/ TxInsert(1)
    \/ TxCommit(1)
    \/ TxClose(1)
    \/ \E uid \in {1, 3} : StartGetUserRoles(2, uid)
    \/ GetUserRoles(2)
    \/ \E ok \in BOOLEAN : StartLogin(2, 1, ok)
    \/ LoginRoles(2)
    \/ LoginFeatures(2)
    \/ LoginMenus(2)
    \/ LoginRolesAgain(2)

SpecRead == InitRead /\ [][NextRead]_vars

(***************************************************************************)
(* SpecWriters: two workers each run one assignment request of the same    *)
(* kind for the same owner, their statements interleaved in every way the  *)
(* row locks allow.                                                        *)
(***************************************************************************)
NextWriters ==
    \/ \E kind \in AssignOps, owner \in IdsAround(roles) :
          \E ids \in SeqsUpTo(IdsAround(TargetsTableOf(kind)), MaxIds) :
             StartAssign(1, kind, owner, ids)
    \/ /\ sessions[1].kind \in AssignOps
       /\ \E ids \in SeqsUpTo(IdsAround(TargetsTableOf(sessions[1].kind)), MaxIds) :
             StartAssign(2, sessions[1].kind, sessions[1].owner, ids)
    \/ \E k \in Requests : TxDelete(k)
    \/ \E k \in Requests : TxInsert(k)
    \/ \E k \in Requests : TxCommit(k)
    \/ \E k \in Requests : TxClose(k)

SpecWriters == InitRead /\ [][NextWriters]_vars

(***************************************************************************)
(* role_service / feature_service and their routers: update and soft       *)
(* delete, for a caller that has passed require_admin                      *)
(***************************************************************************)
\* PUT /roles/{role_id} -> update_role with data.is_active set and the other
\* fields of RoleUpdate left None
UpdateRole(role_id, is_active) ==
    /\ IF Found(roles, role_id)
       THEN /\ roles' = [roles EXCEPT ![role_id].is_active = is_active]
            /\ response' = [op |-> "update_role", status |-> 200, id |-> role_id]
       ELSE /\ roles' = roles
            /\ response' = [op |-> "update_role", status |-> 404, id |-> role_id]
    /\ UNCHANGED <<users, features, menus, user_roles, role_features, role_menus,
                   tenants, schema, tree_input, sessions>>

\* DELETE /roles/{role_id} -> soft_delete_role: only the row itself is marked
SoftDeleteRole(role_id) ==
    /\ IF Found(roles, role_id)
       THEN /\ roles' = [roles EXCEPT ![role_id].is_deleted = TRUE]
            /\ response' = [op |-> "soft_delete_role", status |-> 204, id |-> role_id]
       ELSE /\ roles' = roles
            /\ response' = [op |-> "soft_delete_role", status |-> 404, id |-> role_id]
    /\ UNCHANGED <<users, features, menus, user_roles, role_features, role_menus,
                   tenants, schema, tree_input, sessions>>

\* DELETE /features/{feature_id} -> soft_delete_feature
SoftDeleteFeature(feature_id) ==
    /\ IF Found(features, feature_id)
       THEN /\ features' = [features EXCEPT ![feature_id].is_deleted = TRUE]
            /\ response' = [op |-> "soft_delete_feature", status |-> 204, id |-> feature_id]
       ELSE /\ features' = features
            /\ response' = [op |-> "soft_delete_feature", status |-> 404, id |-> feature_id]
    /\ UNCHANGED <<users, roles, menus, user_roles, role_features, role_menus,
                   tenants, schema, tree_input, sessions>>

\* GET /rbac/users/{user_id}/roles, the whole request
RbacGetUserRoles(user_id) ==
    /\ response' = IF Found(users, user_id)
                   THEN [op |-> "get_user_roles", user_id |-> user_id, status |-> 200,
                         role_ids |-> RoleIdsOf(get_user_roles(user_id))]
                   ELSE [op |-> "get_user_roles", user_id |-> user_id, status |-> 404]
    /\ UNCHANGED <<store, tree_input, sessions>>

(***************************************************************************)
(* SpecLifecycle: update, soft delete and assignment requests in any order *)
(* on a store where user 1 (legacy role USER, no tenant) holds the         *)
(* system-admin role and the manager role, the manager role is granted     *)
(* feature 1 and menu 1, and feature 2 and menu 2 (a child of menu 1) are  *)
(* granted to no role; each request runs alone.                            *)
(***************************************************************************)
InitLifecycle ==
    /\ users = <<UserRow(1, NULL, "USER")>>
    /\ roles = <<RoleRow(1, NULL, SYSTEM_ADMIN_ROLE_CODE, FALSE),
                 RoleRow(2, NULL, ManagerCode, FALSE)>>
    /\ features = SeedFeatures
    /\ menus = SeedMenus
    /\ user_roles = {<<1, 1>>, <<1, 2>>}
    /\ role_features = {<<1, 2>>, <<2, 1>>}
    /\ role_menus = {<<1, 2>>, <<2, 1>>}
    /\ tenants = SeedTenants
    /\ tree_input = <<>>
    /\ schema = "alembic"
    /\ sessions = NoSessions
    /\ response = NoResponse

NextLifecycle ==
    \/ \E id \in IdsAround(roles), a \in BOOLEAN : UpdateRole(id, a)
    \/ \E id \in IdsAround(roles) : SoftDeleteRole(id)
    \/ \E id \in IdsAround(features) : SoftDeleteFeature(id)
    \/ \E id \in IdsAround(menus) : SoftDeleteMenu(id)
    \/ \E ids \in SeqsUpTo(DOMAIN roles, MaxIds) : RbacSetUserRoles(1, ids)
    \/ \E ids \in SeqsUpTo(DOMAIN features, 1) : RbacSetRoleFeatures(2, ids)
    \/ \E uid \in IdsAround(users) : RbacGetUserRoles(uid)
    \/ \E uid \in DOMAIN users : Resolve(uid)

SpecLifecycle == InitLifecycle /\ [][NextLifecycle]_vars

(***************************************************************************)
(* core/dependencies.py: the authorization gates                           *)
(***************************************************************************)
\* the value of a member of app.models.user.UserRole
UserRoleValue(r) ==
    CASE r = "USER" -> <<"u","s","e","r">>
      [] r = "ADMIN" -> <<"a","d","m","i","n">>
      [] r = "SUPER_ADMIN" -> <<"S","U","P","E","R","_","A","D","M","I","N">>

\* _get_rbac_role_codes(db, user_id): the lower-cased codes of the non-deleted
\* roles joined to the user
get_rbac_role_codes(user_id) == RoleCodesOf(get_user_roles(user_id))

\* require_role(allowed_roles) applied to current_user: TRUE when role_checker
\* returns the user, FALSE when it raises ForbiddenException
require_role(allowed_roles, current_user) ==
    LET rbac_role_codes == get_rbac_role_codes(current_user.id)
        allowed_role_codes ==
            {Lower(UserRoleValue(ur)) : ur \in allowed_roles}
            \cup (IF "ADMIN" \in allowed_roles THEN {Lower(SYSTEM_ADMIN_ROLE_CODE)} ELSE {})
    IN  \/ current_user.role = "SUPER_ADMIN"
        \/ current_user.role \in allowed_roles
        \/ Lower(SYSTEM_ADMIN_ROLE_CODE) \in Range(rbac_role_codes)
        \/ \E i \in DOMAIN rbac_role_codes : rbac_role_codes[i] \in allowed_role_codes

\* require_system_admin applied to current_user
require_system_admin(current_user) ==
    /\ current_user.tenant_id = NULL
    /\ \/ current_user.role \in {"ADMIN", "SUPER_ADMIN"}
       \/ Lower(SYSTEM_ADMIN_ROLE_CODE) \in Range(get_rbac_role_codes(current_user.id))

\* require_admin = require_role([UserRole.ADMIN])
require_admin(current_user) == require_role({"ADMIN"}, current_user)

\* get_current_user: the users row of the id in the token
get_current_user(user_id) == users[user_id]

(***************************************************************************)
(* routers/tenant.py and tenant_service: tenant create, update and soft    *)
(* delete behind the gate the router declares                              *)
(***************************************************************************)
TenantOps == {"create_tenant", "update_tenant", "soft_delete_tenant"}

\* POST /tenants/: Depends(require_admin), then create_tenant; a code that a
\* row already has is answered 409 (the lookup of the service for a live row,
\* the unique index on tenants.code for a soft-deleted one)
TenantsCreate(caller, code, is_active) ==
    /\ IF ~require_admin(get_current_user(caller))
       THEN /\ tenants' = tenants
            /\ response' = [op |-> "create_tenant", status |-> 403, id |-> NULL,
                             code |-> code]
       ELSE IF \E i \in DOMAIN tenants : tenants[i].code = code
            THEN /\ tenants' = tenants
                 /\ response' = [op |-> "create_tenant", status |-> 409, id |-> NULL,
                                 code |-> code]
            ELSE /\ tenants' = Append(tenants, [id |-> Len(tenants) + 1, code |-> code,
                                                is_active |-> is_active, is_deleted |-> FALSE])
                 /\ response' = [op |-> "create_tenant", status |-> 201,
                                 id |-> Len(tenants) + 1, code |-> code]
    /\ UNCHANGED <<users, roles, features, menus, user_roles, role_features, role_menus,
                   schema, tree_input, sessions>>

\* PUT /tenants/{tenant_id} with data.is_active set
TenantsUpdate(caller, tenant_id, is_active) ==
    /\ IF ~require_admin(get_current_user(caller))
       THEN /\ tenants' = tenants
            /\ response' = [op |-> "update_tenant", status |-> 403, id |-> tenant_id]
       ELSE IF ~Found(tenants, tenant_id)
            THEN /\ tenants' = tenants
                 /\ response' = [op |-> "update_tenant", status |-> 404, id |-> tenant_id]
            ELSE /\ tenants' = [tenants EXCEPT ![tenant_id].is_active = is_active]
                 /\ response' = [op |-> "update_tenant", status |-> 200, id |-> tenant_id]
    /\ UNCHANGED <<users, roles, features, menus, user_roles, role_features, role_menus,
                   schema, tree_input, sessions>>

\* DELETE /tenants/{tenant_id}
TenantsDelete(caller, tenant_id) ==
    /\ IF ~require_admin(get_current_user(caller))
       THEN /\ tenants' = tenants
            /\ response' = [op |-> "soft_delete_tenant", status |-> 403, id |-> tenant_id]
       ELSE IF ~Found(tenants, tenant_id)
            THEN /\ tenants' = tenants
                 /\ response' = [op |-> "soft_delete_tenant", status |-> 404, id |-> tenant_id]
            ELSE /\ tenants' = [tenants EXCEPT ![tenant_id].is_deleted = TRUE]
                 /\ response' = [op |-> "soft_delete_tenant", status |-> 204, id |-> tenant_id]
    /\ UNCHANGED <<users, roles, features, menus, user_roles, role_features, role_menus,
                   schema, tree_input, sessions>>

(***************************************************************************)
(* routers/rbac.py: the assignment endpoints behind their gate             *)
(***************************************************************************)
\* the 403 of an assignment endpoint
AssignForbidden(name, owner, ids) ==
    /\ response' = AssignResponse(name, owner, ids, 403)
    /\ UNCHANGED <<store, tree_input, sessions>>

\* POST /rbac/users/{user_id}/roles with Depends(require_admin)
PostUserRoles(caller, user_id, role_ids) ==
    IF require_admin(get_current_user(caller))
    THEN RbacSetUserRoles(user_id, role_ids)
    ELSE AssignForbidden("set_user_roles", user_id, role_ids)

\* POST /rbac/roles/{role_id}/menus with Depends(require_admin)
PostRoleMenus(caller, role_id, menu_ids) ==
    IF require_admin(get_current_user(caller))
    THEN RbacSetRoleMenus(role_id, menu_ids)
    ELSE AssignForbidden("set_role_menus", role_id, menu_ids)

\* POST /rbac/roles/{role_id}/features with Depends(require_admin)
PostRoleFeatures(caller, role_id, feature_ids) ==
    IF require_admin(get_current_user(caller))
    THEN RbacSetRoleFeatures(role_id, feature_ids)
    ELSE AssignForbidden("set_role_features", role_id, feature_ids)

(***************************************************************************)
(* SpecTenantGate and SpecAssignGate: every request is sent by user 1,     *)
(* whose legacy role, tenant and RBAC roles are drawn; role 1 is the       *)
(* system-admin role, role 2 a role with code ADMIN.                       *)
(***************************************************************************)
\* the user whose token the requests carry
GateCaller == 1

AdminCode == <<"A","D","M","I","N">>

InitGate ==
    /\ \E t \in {NULL, 1}, r \in UserRole :
          users = <<UserRow(1, t, r), UserRow(2, 1, "USER")>>
    /\ roles = <<RoleRow(1, NULL, SYSTEM_ADMIN_ROLE_CODE, FALSE),
                 RoleRow(2, NULL, AdminCode, FALSE)>>
    /\ user_roles \in SUBSET ({GateCaller} \X {1, 2})
    /\ features = SeedFeatures
    /\ menus = SeedMenus
    /\ role_features = {}
    /\ role_menus = {}
    /\ tenants = SeedTenants
    /\ tree_input = <<>>
    /\ schema = "alembic"
    /\ sessions = NoSessions
    /\ response = NoResponse

NextTenantGate ==
    \/ \E c \in Range(TenantCodes), a \in BOOLEAN :
          Len(tenants) < MaxTenants /\ TenantsCreate(GateCaller, c, a)
    \/ \E id \in 1..MaxTenants, a \in BOOLEAN : TenantsUpdate(GateCaller, id, a)
    \/ \E id \in 1..MaxTenants : TenantsDelete(GateCaller, id)

SpecTenantGate == InitGate /\ [][NextTenantGate]_vars

NextAssignGate ==
    \/ \E u \in DOMAIN users, ids \in SeqsUpTo(DOMAIN roles, MaxIds) :
          PostUserRoles(GateCaller, u, ids)
    \/ \E ids \in SeqsUpTo(DOMAIN menus, 1) : PostRoleMenus(GateCaller, 2, ids)
    \/ \E ids \in SeqsUpTo(DOMAIN features, 1) : PostRoleFeatures(GateCaller, 2, ids)

SpecAssignGate == InitGate /\ [][NextAssignGate]_vars

(***************************************************************************)
(* routers/auth.py register, statement by statement: the count of the      *)
(* users table, then create_user (add and commit)                          *)
(***************************************************************************)
RegisterEmails == {"ann@example.com", "bob@example.com", "cy@example.com"}

\* the users row create_user adds
RegisteredRow(i, email, tenant_id, role) ==
    [id |-> i, tenant_id |-> tenant_id, role |-> role, is_deleted |-> FALSE,
     email |-> email]

RegisterSession(email, tenant_id, pc, existing_users, status) ==
    [kind |-> "register", email |-> email, tenant_id |-> tenant_id, pc |-> pc,
     existing_users |-> existing_users, status |-> status]

\* register requests that have not written their row yet
Registering == {k \in Requests : sessions[k].kind = "register" /\ sessions[k].pc # "done"}

\* POST /auth/register arrives with user_data
StartRegister(k, email, tenant_id) ==
    /\ sessions[k] = Idle
    /\ sessions' = [sessions EXCEPT ![k] = RegisterSession(email, tenant_id, "count", NULL, NULL)]
    /\ UNCHANGED <<store, tree_input, response>>

\* existing_users = db.query(User).count()
RegCount(k) ==
    /\ sessions[k].kind = "register"
    /\ sessions[k].pc = "count"
    /\ sessions' = [sessions EXCEPT ![k].existing_users = Len(users), ![k].pc = "insert"]
    /\ UNCHANGED <<store, tree_input, response>>

\* role from is_first_user, then create_user: add and commit, or the 409 of
\* the unique index on users.email
RegInsert(k) ==
    LET s == sessions[k]
        is_first_user == s.existing_users = 0
        role == IF is_first_user THEN "ADMIN" ELSE "USER"
        conflict == \E i \in DOMAIN users : users[i].email = s.email
        status == IF conflict THEN 409 ELSE 201
    IN  /\ s.kind = "register"
        /\ s.pc = "insert"
        /\ users' = IF conflict THEN users
                    ELSE Append(users, RegisteredRow(Len(users) + 1, s.email, s.tenant_id, role))
        /\ sessions' = [sessions EXCEPT ![k].pc = "done", ![k].status = status]
        /\ response' = [op |-> "register", status |-> status, email |-> s.email,
                        role |-> IF conflict THEN NULL ELSE role]
        /\ UNCHANGED <<roles, features, menus, tenants, user_roles, role_features,
                       role_menus, schema, tree_input>>

\* the response is sent and the session closed
RegClose(k) ==
    /\ sessions[k].kind = "register"
    /\ sessions[k].pc = "done"
    /\ sessions' = [sessions EXCEPT ![k] = Idle]
    /\ UNCHANGED <<store, tree_input, response>>

(***************************************************************************)
(* SpecRegister: two workers serve register requests on a database that    *)
(* starts without users.                                                   *)
(***************************************************************************)
InitRegister ==
    /\ users = <<>>
    /\ roles = <<>>
    /\ features = <<>>
    /\ menus = <<>>
    /\ tenants = SeedTenants
    /\ user_roles = {}
    /\ role_features = {}
    /\ role_menus = {}
    /\ tree_input = <<>>
    /\ schema = "alembic"
    /\ sessions = NoSessions
    /\ response = NoResponse

NextRegister ==
    \E k \in Requests :
       \/ \E e \in RegisterEmails, t \in {NULL, 1} :
             /\ Len(users) + Cardinality(Registering) < MaxUsers
             /\ StartRegister(k, e, t)
       \/ RegCount(k)
       \/ RegInsert(k)
       \/ RegClose(k)

SpecRegister == InitRegister /\ [][NextRegister]_vars

(***************************************************************************)
(* role_service.create_role, statement by statement: the lookup of a live  *)
(* role with the same (tenant_id, code), then add and commit               *)
(***************************************************************************)
\* the lookup of create_role: a non-deleted role with this code and tenant_id
\* (tenant_id None is compared with IS NULL)
existing_role(tenant_id, code) ==
    \E i \in DOMAIN roles :
        /\ roles[i].code = code
        /\ roles[i].tenant_id = tenant_id
        /\ roles[i].is_deleted = FALSE

\* uq_roles_tenant_code, which only the migration creates (Role.__table_args__
\* is empty): TRUE when the row may be inserted.  The constraint counts
\* soft-deleted rows and takes two NULL tenant_ids as equal.
uq_roles_tenant_code(tenant_id, code) ==
    schema = "alembic" =>
        ~\E i \in DOMAIN roles : roles[i].code = code /\ roles[i].tenant_id = tenant_id

CreateRoleSession(tenant_id, code, pc, status) ==
    [kind |-> "create_role", tenant_id |-> tenant_id, code |-> code, pc |-> pc,
     status |-> status]

\* create_role requests that may still insert their row
CreatingRole == {k \in Requests : sessions[k].kind = "create_role" /\ sessions[k].pc # "done"}

\* POST /roles/ arrives with data.tenant_id and data.code
StartCreateRole(k, tenant_id, code) ==
    /\ sessions[k] = Idle
    /\ sessions' = [sessions EXCEPT ![k] = CreateRoleSession(tenant_id, code, "check", NULL)]
    /\ UNCHANGED <<store, tree_input, response>>

\* existing = db.query(Role).filter(...).first(); ConflictException if found
RoleCheck(k) ==
    LET s == sessions[k]
    IN  /\ s.kind = "create_role"
        /\ s.pc = "check"
        /\ IF existing_role(s.tenant_id, s.code)
           THEN /\ sessions' = [sessions EXCEPT ![k].pc = "done", ![k].status = 409]
                /\ response' = [op |-> "create_role", status |-> 409, id |-> NULL]
           ELSE /\ sessions' = [sessions EXCEPT ![k].pc = "commit"]
                /\ response' = response
        /\ UNCHANGED <<store, tree_input>>

\* db.add(role); db.commit(): the row is inserted, or the unique constraint
\* raises IntegrityError, which sqlalchemy_exception_handler answers with 409
RoleCommit(k) ==
    LET s == sessions[k]
        ok == uq_roles_tenant_code(s.tenant_id, s.code)
        status == IF ok THEN 201 ELSE 409
    IN  /\ s.kind = "create_role"
        /\ s.pc = "commit"
        /\ roles' = IF ok THEN Append(roles, RoleRow(Len(roles) + 1, s.tenant_id, s.code, FALSE))
                    ELSE roles
        /\ sessions' = [sessions EXCEPT ![k].pc = "done", ![k].status = status]
        /\ response' = [op |-> "create_role", status |-> status,
                        id |-> IF ok THEN Len(roles) + 1 ELSE NULL]
        /\ UNCHANGED <<users, features, menus, user_roles, role_features, role_menus,
                       tenants, schema, tree_input>>

\* the response is sent and the session closed
CloseCreateRole(k) ==
    /\ sessions[k].kind = "create_role"
    /\ sessions[k].pc = "done"
    /\ sessions' = [sessions EXCEPT ![k] = Idle]
    /\ UNCHANGED <<store, tree_input, response>>

(***************************************************************************)
(* SpecRoleCreate: two workers serve create_role requests, and roles are   *)
(* soft-deleted, on a database whose schema is drawn.                      *)
(***************************************************************************)
CreateRoleCodes == {ManagerCode, SYSTEM_ADMIN_ROLE_CODE}

InitRoleCreate ==
    /\ users = <<>>
    /\ roles = <<>>
    /\ features = <<>>
    /\ menus = <<>>
    /\ tenants = SeedTenants
    /\ user_roles = {}
    /\ role_features = {}
    /\ role_menus = {}
    /\ schema \in Schemas
    /\ tree_input = <<>>
    /\ sessions = NoSessions
    /\ response = NoResponse

NextRoleCreate ==
    \/ \E k \in Requests :
          \/ \E t \in {NULL, 1}, c \in CreateRoleCodes :
                /\ Len(roles) + Cardinality(CreatingRole) < MaxRoleRows
                /\ StartCreateRole(k, t, c)
          \/ RoleCheck(k)
          \/ RoleCommit(k)
          \/ CloseCreateRole(k)
    \/ \E id \in 1..MaxRoleRows : SoftDeleteRole(id)

SpecRoleCreate == InitRoleCreate /\ [][NextRoleCreate]_vars

(***************************************************************************)
(* routers/rbac.py: GET /rbac/roles/{role_id}/menus and                    *)
(* GET /rbac/roles/{role_id}/features return the relationship collections  *)
(* of the role                                                             *)
(***************************************************************************)
\* Role.menus = relationship("Menu", secondary=role_menus): the menus rows
\* linked to the role, loaded by the join on role_menus alone
RoleMenusRelationship(role_id) == JoinRoles(menus, role_menus, <<role_id>>)

\* Role.features = relationship("Feature", secondary=role_features)
RoleFeaturesRelationship(role_id) == JoinRoles(features, role_features, <<role_id>>)

\* GET /rbac/roles/{role_id}/menus: get_role, then role.menus
GetRoleMenus(role_id) ==
    /\ response' = IF Found(roles, role_id)
                   THEN [op |-> "get_role_menus", status |-> 200, role_id |-> role_id,
                         rows |-> RoleMenusRelationship(role_id)]
                   ELSE [op |-> "get_role_menus", status |-> 404, role_id |-> role_id,
                         rows |-> <<>>]
    /\ UNCHANGED <<store, tree_input, sessions>>

\* GET /rbac/roles/{role_id}/features: get_role, then role.features
GetRoleFeatures(role_id) ==
    /\ response' = IF Found(roles, role_id)
                   THEN [op |-> "get_role_features", status |-> 200, role_id |-> role_id,
                         rows |-> RoleFeaturesRelationship(role_id)]
                   ELSE [op |-> "get_role_features", status |-> 404, role_id |-> role_id,
                         rows |-> <<>>]
    /\ UNCHANGED <<store, tree_input, sessions>>

(***************************************************************************)
(* SpecRoleReads: the menus and features of the roles are read while       *)
(* menus, features and roles are soft-deleted and the sets of role 2 are   *)
(* replaced.                                                               *)
(***************************************************************************)
NextRoleReads ==
    \/ \E id \in IdsAround(roles) : GetRoleMenus(id)
    \/ \E id \in IdsAround(roles) : GetRoleFeatures(id)
    \/ \E id \in DOMAIN menus : SoftDeleteMenu(id)
    \/ \E id \in DOMAIN features : SoftDeleteFeature(id)
    \/ \E id \in DOMAIN roles : SoftDeleteRole(id)
    \/ \E ids \in SeqsUpTo(DOMAIN menus, MaxIds) : RbacSetRoleMenus(2, ids)
    \/ \E ids \in SeqsUpTo(DOMAIN features, MaxIds) : RbacSetRoleFeatures(2, ids)

SpecRoleReads == InitLifecycle /\ [][NextRoleReads]_vars

(***************************************************************************)
(* SpecMenuRoles: the resolver on a store where a user with legacy role    *)
(* USER holds any of two roles and every menu may be granted to either     *)
(* role or to both.                                                        *)
(***************************************************************************)
InitMenuRoles ==
    /\ \E t \in {NULL, 1} : users = <<UserRow(1, t, "USER")>>
    /\ roles = <<RoleRow(1, NULL, ReadRoleCodes[1], FALSE),
                 RoleRow(2, NULL, ReadRoleCodes[2], FALSE)>>
    /\ user_roles \in SUBSET ({1} \X {1, 2})
    /\ features = SeedFeatures
    /\ role_features = {<<1, 1>>}
    /\ \E n \in 0..MaxMenus :
         /\ \E ps \in [1..n -> 0..(n - 1)] :
              /\ \A i \in 1..n : ps[i] < i
              /\ menus = [i \in 1..n |-> MenuRow(i, NULL, ps[i], SeedSort(i), TRUE, FALSE)]
         /\ role_menus \in SUBSET ({1, 2} \X (1..n))
    /\ tenants = SeedTenants
    /\ schema = "alembic"
    /\ tree_input = <<>>
    /\ sessions = NoSessions
    /\ response = NoResponse

SpecMenuRoles == InitMenuRoles /\ [][NextResolve]_vars

(***************************************************************************)
(* SpecMenuLife: menu 1 is a level-1 menu, every other menu is a root or a *)
(* child of menu 1.  Menus are soft-deleted, menu 1 is switched inactive   *)
(* and active, the menus of role 1 are replaced, and the forest is         *)
(* resolved for a super-admin (user 1) and for a user of role 1 (user 2).  *)
(***************************************************************************)
InitMenuLife ==
    /\ users = <<UserRow(1, NULL, "ADMIN"), UserRow(2, 1, "USER")>>
    /\ roles = <<RoleRow(1, NULL, ManagerCode, FALSE)>>
    /\ user_roles = {<<2, 1>>}
    /\ features = SeedFeatures
    /\ role_features = {<<1, 1>>}
    /\ \E n \in 1..MaxMenus :
         /\ \E ps \in [1..n -> {NULL, 1}] :
              /\ ps[1] = NULL
              /\ menus = [i \in 1..n |-> MenuRow(i, NULL, ps[i], SeedSort(i), TRUE, FALSE)]
         /\ role_menus \in SUBSET ({1} \X (1..n))
    /\ tenants = SeedTenants
    /\ schema = "alembic"
    /\ tree_input = <<>>
    /\ sessions = NoSessions
    /\ response = NoResponse

NextMenuLife ==
    \/ \E id \in DOMAIN menus : SoftDeleteMenu(id)
    \/ \E a \in BOOLEAN : UpdateMenu(1, a)
    \/ \E ids \in SeqsUpTo(DOMAIN menus, 1) : RbacSetRoleMenus(1, ids)
    \/ \E uid \in DOMAIN users : Resolve(uid)

SpecMenuLife == InitMenuLife /\ [][NextMenuLife]_vars

(***************************************************************************)
(* POST /roles/ as one step, behind the gate the router declares           *)
(***************************************************************************)
\* role_service.create_role run without another request in between
CreateRole(tenant_id, code) ==
    LET ok == ~existing_role(tenant_id, code) /\ uq_roles_tenant_code(tenant_id, code)
    IN  /\ roles' = IF ok THEN Append(roles, RoleRow(Len(roles) + 1, tenant_id, code, FALSE))
                    ELSE roles
        /\ response' = [op |-> "create_role", status |-> IF ok THEN 201 ELSE 409,
                        id |-> IF ok THEN Len(roles) + 1 ELSE NULL,
                        tenant_id |-> tenant_id, code |-> code]
        /\ UNCHANGED <<users, features, menus, user_roles, role_features, role_menus,
                       tenants, schema, tree_input, sessions>>

\* POST /roles/ with Depends(require_admin)
PostRole(caller, tenant_id, code) ==
    IF require_admin(get_current_user(caller))
    THEN CreateRole(tenant_id, code)
    ELSE /\ response' = [op |-> "create_role", status |-> 403, id |-> NULL,
                         tenant_id |-> tenant_id, code |-> code]
         /\ UNCHANGED <<store, tree_input, sessions>>

(***************************************************************************)
(* SpecEscalation: user 1 is the admin of tenant 1 (legacy role ADMIN, no  *)
(* RBAC role), user 2 a user of the same tenant; the roles table is empty. *)
(* Every role and assignment request is sent by user 1; the resolver runs  *)
(* at the login of either user.                                            *)
(***************************************************************************)
InitEscalation ==
    /\ users = <<UserRow(1, 1, "ADMIN"), UserRow(2, 1, "USER")>>
    /\ roles = <<>>
    /\ user_roles = {}
    /\ features = SeedFeatures
    /\ menus = SeedMenus
    /\ role_features = {}
    /\ role_menus = {}
    /\ tenants = SeedTenants
    /\ schema \in Schemas
    /\ tree_input = <<>>
    /\ sessions = NoSessions
    /\ response = NoResponse

NextEscalation ==
    \/ \E t \in {NULL, 1}, c \in CreateRoleCodes :
          Len(roles) < MaxRoleRows /\ PostRole(GateCaller, t, c)
    \/ \E u \in DOMAIN users, ids \in SeqsUpTo(DOMAIN roles, 1) :
          PostUserRoles(GateCaller, u, ids)
    \/ \E uid \in DOMAIN users : Resolve(uid)

SpecEscalation == InitEscalation /\ [][NextEscalation]_vars

(***************************************************************************)
(* routers/auth.py login and routers/user.py behind get_current_user: a    *)
(* client logs in, keeps the token and sends it with its later requests    *)
(***************************************************************************)
\* a client that holds the access token create_access_token made for user sub
ClientSession(sub) == [kind |-> "client", sub |-> sub]

\* get_user_by_email for the email of user_id: the row unless it is missing or
\* soft-deleted
get_user_by_email(user_id) == Found(users, user_id)

\* get_current_user on the token of client k: the users row with the id of the
\* sub claim, looked up by id alone; TRUE when a row is found
TokenAccepted(k) == sessions[k].sub \in DOMAIN users

\* POST /auth/login and POST /auth/login/context with the email of user_id:
\* 401 without a row or with a wrong password, else a token for the client
Login(k, user_id, password_ok, with_context) ==
    LET op == IF with_context THEN "login_with_context" ELSE "login"
        ok == get_user_by_email(user_id) /\ password_ok
    IN  /\ sessions[k].kind \in {"idle", "client"}
        /\ sessions' = IF ok THEN [sessions EXCEPT ![k] = ClientSession(user_id)] ELSE sessions
        /\ response' = [op |-> op, status |-> IF ok THEN 200 ELSE 401, user_id |-> user_id]
        /\ UNCHANGED <<store, tree_input>>

\* the answer of an endpoint of routers/user.py
AccountResponse(op, status, caller, id) ==
    [op |-> op, status |-> status, caller |-> caller, id |-> id]

\* GET /api/account/ with Depends(get_current_user)
ReadAllUsers(k) ==
    /\ sessions[k].kind = "client"
    /\ response' = AccountResponse("read_all_users",
                                   IF TokenAccepted(k) THEN 200 ELSE 401,
                                   sessions[k].sub, NULL)
    /\ UNCHANGED <<store, tree_input, sessions>>

\* PUT /api/account/{user_id} with data.tenant_id (None leaves the column) and
\* the other fields of UserUpdate left None; a tenant_id without a tenants row
\* breaks the foreign key (IntegrityError, 409)
PutAccount(k, user_id, tenant_id) ==
    LET sub == sessions[k].sub
        current_user == get_current_user(sub)
        status == IF ~TokenAccepted(k) THEN 401
                  ELSE IF current_user.role # "ADMIN" /\ current_user.id # user_id THEN 403
                  ELSE IF ~Found(users, user_id) THEN 404
                  ELSE IF tenant_id # NULL /\ tenant_id \notin DOMAIN tenants THEN 409
                  ELSE 200
    IN  /\ sessions[k].kind = "client"
        /\ users' = IF status = 200 /\ tenant_id # NULL
                    THEN [users EXCEPT ![user_id].tenant_id = tenant_id]
                    ELSE users
        /\ response' = AccountResponse("update_user", status, sub, user_id)
        /\ UNCHANGED <<roles, features, menus, user_roles, role_features, role_menus,
                       tenants, schema, tree_input, sessions>>

\* DELETE /api/account/{user_id} with Depends(require_admin) -> soft_delete_user
DeleteAccount(k, user_id) ==
    LET sub == sessions[k].sub
        status == IF ~TokenAccepted(k) THEN 401
                  ELSE IF ~require_admin(get_current_user(sub)) THEN 403
                  ELSE IF ~Found(users, user_id) THEN 404
                  ELSE 204
    IN  /\ sessions[k].kind = "client"
        /\ users' = IF status = 204 THEN [users EXCEPT ![user_id].is_deleted = TRUE]
                    ELSE users
        /\ response' = AccountResponse("soft_delete_user", status, sub, user_id)
        /\ UNCHANGED <<roles, features, menus, user_roles, role_features, role_menus,
                       tenants, schema, tree_input, sessions>>

(***************************************************************************)
(* SpecAccount: two clients log in as any of two users (user 1 an          *)
(* org-level ADMIN, user 2 a USER of tenant 1) and send account requests.  *)
(***************************************************************************)
InitAccount ==
    /\ users = <<UserRow(1, NULL, "ADMIN"), UserRow(2, 1, "USER")>>
    /\ roles = <<>>
    /\ user_roles = {}
    /\ features = SeedFeatures
    /\ menus = SeedMenus
    /\ role_features = {}
    /\ role_menus = {}
    /\ tenants = SeedTenants
    /\ schema = "alembic"
    /\ tree_input = <<>>
    /\ sessions = NoSessions
    /\ response = NoResponse

NextAccount ==
    \E k \in Requests :
       \/ \E u \in IdsAround(users), ok \in BOOLEAN, ctx \in BOOLEAN : Login(k, u, ok, ctx)
       \/ ReadAllUsers(k)
       \/ \E u \in IdsAround(users), t \in {NULL} \cup IdsAround(tenants) : PutAccount(k, u, t)
       \/ \E u \in IdsAround(users) : DeleteAccount(k, u)

SpecAccount == InitAccount /\ [][NextAccount]_vars

(***************************************************************************)
(* feature_service.create_feature                                          *)
(***************************************************************************)
\* POST /features/ -> create_feature: ConflictException when a live feature
\* has the code; else add and commit, where the unique index on
\* features.code, which counts soft-deleted rows, raises IntegrityError (409)
CreateFeature(code) ==
    LET existing == \E i \in DOMAIN features :
                        features[i].code = code /\ features[i].is_deleted = FALSE
        unique == ~\E i \in DOMAIN features : features[i].code = code
        ok == ~existing /\ unique
    IN  /\ features' = IF ok
                       THEN Append(features, [id |-> Len(features) + 1, code |-> code,
                                              is_active |-> TRUE, is_deleted |-> FALSE])
                       ELSE features
        /\ response' = [op |-> "create_feature", status |-> IF ok THEN 201 ELSE 409,
                        id |-> IF ok THEN Len(features) + 1 ELSE NULL, code |-> code]
        /\ UNCHANGED <<users, roles, menus, user_roles, role_features, role_menus,
                       tenants, schema, tree_input, sessions>>

(***************************************************************************)
(* SpecRecreate: features, tenants and roles are created and soft-deleted  *)
(* by an org-level ADMIN, on a database whose schema is drawn; each table  *)
(* starts with one row.                                                    *)
(***************************************************************************)
InitRecreate ==
    /\ users = <<UserRow(1, NULL, "ADMIN")>>
    /\ roles = <<RoleRow(1, NULL, ManagerCode, FALSE)>>
    /\ user_roles = {}
    /\ features = <<FeatureRow(1, TRUE, FALSE)>>
    /\ menus = <<>>
    /\ role_features = {}
    /\ role_menus = {}
    /\ tenants = <<TenantRow(1, TRUE, FALSE)>>
    /\ schema \in Schemas
    /\ tree_input = <<>>
    /\ sessions = NoSessions
    /\ response = NoResponse

NextRecreate ==
    \/ \E c \in {FeatureCodes[1], FeatureCodes[2]} :
          Len(features) < MaxFeatureRows /\ CreateFeature(c)
    \/ \E id \in DOMAIN features : SoftDeleteFeature(id)
    \/ \E c \in {TenantCodes[1], TenantCodes[2]} :
          Len(tenants) < MaxTenants /\ TenantsCreate(GateCaller, c, TRUE)
    \/ \E id \in DOMAIN tenants : TenantsDelete(GateCaller, id)
    \/ \E c \in CreateRoleCodes : Len(roles) < MaxRoleRows /\ CreateRole(NULL, c)
    \/ \E id \in DOMAIN roles : SoftDeleteRole(id)

SpecRecreate == InitRecreate /\ [][NextRecreate]_vars

(***************************************************************************)
(* Vocabulary of the properties                                            *)
(***************************************************************************)
\* the ids of all nodes of a forest, at any depth
RECURSIVE ForestIds(_)
ForestIds(forest) ==
    UNION {{forest[i].id} \cup ForestIds(forest[i].children) : i \in DOMAIN forest}

\* the ids of a list of nodes, in order
NodeIds(nodes) == [i \in DOMAIN nodes |-> nodes[i].id]

\* the user a resolve response is about
Subject == users[response.user_id]

Resolved == response.op = "resolve"

\* a and b are the same string up to the case of the letters A-Z
EqualsIgnoreCase(a, b) ==
    /\ Len(a) = Len(b)
    /\ \A i \in DOMAIN a :
         \/ a[i] = b[i]
         \/ \E k \in DOMAIN UpperChars : {a[i], b[i]} = {UpperChars[k], LowerChars[k]}

\* the ids of the non-deleted roles assigned to user u
AssignedRoleIds(u) ==
    {r.id : r \in {x \in Range(roles) : <<u.id, x.id>> \in user_roles /\ x.is_deleted = FALSE}}

\* the three conditions that make u a super-admin
HoldsSystemAdminRole(u) ==
    \E rid \in AssignedRoleIds(u) : EqualsIgnoreCase(roles[rid].code, SYSTEM_ADMIN_ROLE_CODE)

SuperAdminUser(u) ==
    \/ u.role = "SUPER_ADMIN"
    \/ u.role = "ADMIN" /\ u.tenant_id = NULL
    \/ HoldsSystemAdminRole(u)

LiveFeatures == {f \in Range(features) : f.is_deleted = FALSE /\ f.is_active = TRUE}

NoDuplicates(list) == Cardinality(Range(list)) = Len(list)

(***************************************************************************)
(* C1 - Tenant isolation: the menu forest resolved for a user U contains   *)
(* no node, at any depth, whose menu row has a non-null tenant_id          *)
(* different from U.tenant_id, super-admin or not.                         *)
(***************************************************************************)
TenantIsolation ==
    Resolved =>
        \A id \in ForestIds(response.menus) :
            menus[id].tenant_id = NULL \/ menus[id].tenant_id = Subject.tenant_id

\* a super-admin without a tenant is resolved while an active menu of a tenant
\* exists, and still gets a non-empty forest
TenantIsolationWitness ==
    /\ Resolved
    /\ SuperAdminUser(Subject)
    /\ Subject.tenant_id = NULL
    /\ \E m \in Range(menus) : m.tenant_id # NULL /\ m.parent_id = NULL
    /\ response.menus # <<>>

(***************************************************************************)
(* C2 - Super-admin determination: resolution treats the user as           *)
(* super-admin iff the legacy role is SUPER_ADMIN, or it is ADMIN with a   *)
(* null tenant_id, or a non-deleted assigned role has a code equal to      *)
(* SYSTEM_ADMIN up to case.                                                *)
(***************************************************************************)
SuperAdminDetermination ==
    Resolved => (response.is_super_admin <=> SuperAdminUser(Subject))

\* a tenant admin becomes super-admin only through a mixed-case System_Admin role
SuperAdminDeterminationWitness ==
    /\ Resolved
    /\ Subject.role = "ADMIN"
    /\ Subject.tenant_id # NULL
    /\ response.is_super_admin
    /\ AssignedRoleIds(Subject) # {}
    /\ \A rid \in AssignedRoleIds(Subject) :
            roles[rid].code = <<"S","y","s","t","e","m","_","A","d","m","i","n">>

(***************************************************************************)
(* C3 - Super-admin completeness: for a super-admin the permission list is *)
(* exactly the codes of the features with is_deleted = false and           *)
(* is_active = true, whatever user_roles and role_features hold.           *)
(***************************************************************************)
SuperAdminCompleteness ==
    (Resolved /\ SuperAdminUser(Subject)) =>
        /\ Range(response.permissions) = {f.code : f \in LiveFeatures}
        /\ NoDuplicates(response.permissions)

\* a super-admin without any role row gets the one live feature of two
SuperAdminCompletenessWitness ==
    /\ Resolved
    /\ SuperAdminUser(Subject)
    /\ user_roles = {}
    /\ role_features = {}
    /\ Len(features) = 2
    /\ Len(response.permissions) = 1

(***************************************************************************)
(* C4 - For a user who is not super-admin the permission codes are exactly *)
(* the codes of the live features that role_features links to a resolved   *)
(* role of the user, each code once.                                       *)
(***************************************************************************)
RolePermissions ==
    (Resolved /\ ~SuperAdminUser(Subject)) =>
        /\ Range(response.permissions) =
             {f.code : f \in {x \in LiveFeatures :
                                \E rid \in AssignedRoleIds(Subject) : <<rid, x.id>> \in role_features}}
        /\ NoDuplicates(response.permissions)

\* two resolved roles grant the same live feature, which is listed once
RolePermissionsWitness ==
    /\ Resolved
    /\ ~SuperAdminUser(Subject)
    /\ AssignedRoleIds(Subject) = {1, 2}
    /\ {<<1, 1>>, <<2, 1>>} \subseteq role_features
    /\ response.permissions = <<FeatureCodes[1]>>

(***************************************************************************)
(* C5 - Empty-role emptiness: a user who is not super-admin and has no     *)
(* resolved role (no user_roles row, or only rows of soft-deleted roles)   *)
(* gets no permission and an empty menu forest.                            *)
(***************************************************************************)
EmptyRoleEmptiness ==
    (Resolved /\ ~SuperAdminUser(Subject) /\ AssignedRoleIds(Subject) = {}) =>
        /\ response.permissions = <<>>
        /\ response.menus = <<>>

\* the only role row of the user points at a soft-deleted role that is granted
\* a live feature and live menus
EmptyRoleEmptinessWitness ==
    /\ Resolved
    /\ ~SuperAdminUser(Subject)
    /\ user_roles = {<<1, 2>>}
    /\ roles[2].is_deleted
    /\ \E f \in LiveFeatures : <<2, f.id>> \in role_features
    /\ <<2, 1>> \in role_menus
    /\ response.permissions = <<>>
    /\ response.menus = <<>>

(***************************************************************************)
(* C6 - Tree ordering: the root list and every children list built by      *)
(* build_menu_tree hold exactly the rows of their partition, sorted by     *)
(* (sort_order ascending, id ascending), whatever the order of the input.  *)
(***************************************************************************)
InputRow(id) == CHOOSE m \in Range(tree_input) : m.id = id

\* the list of nodes is the partition parent_id = p in (sort_order, id) order
RECURSIVE OrderedPartition(_, _)
OrderedPartition(nodes, p) ==
    /\ Range(NodeIds(nodes)) = {m.id : m \in {x \in Range(tree_input) : x.parent_id = p}}
    /\ \A i \in DOMAIN nodes : \A j \in DOMAIN nodes :
         i < j =>
            \/ InputRow(nodes[i].id).sort_order < InputRow(nodes[j].id).sort_order
            \/ /\ InputRow(nodes[i].id).sort_order = InputRow(nodes[j].id).sort_order
               /\ nodes[i].id < nodes[j].id
    /\ \A i \in DOMAIN nodes : OrderedPartition(nodes[i].children, nodes[i].id)

\* the rows of the example: {1, root, sort 2}, {2, root, sort 1}, {3, parent 1, sort 1}
ExampleRows ==
    {MenuRow(1, NULL, NULL, 2, TRUE, FALSE), MenuRow(2, NULL, NULL, 1, TRUE, FALSE),
     MenuRow(3, NULL, 1, 1, TRUE, FALSE)}

ExampleForest ==
    <<[id |-> 2, children |-> <<>>],
      [id |-> 1, children |-> <<[id |-> 3, children |-> <<>>]>>]>>

TreeOrdering ==
    response.op = "build_menu_tree" =>
        /\ OrderedPartition(response.menus, NULL)
        /\ (Range(tree_input) = ExampleRows /\ Len(tree_input) = 3)
              => response.menus = ExampleForest

\* the example, with its rows given in descending id order
TreeOrderingWitness ==
    /\ response.op = "build_menu_tree"
    /\ Range(tree_input) = ExampleRows
    /\ NodeIds(tree_input) = <<3, 2, 1>>
    /\ response.menus = ExampleForest

(***************************************************************************)
(* C7 - Orphan dropping: a menu whose parent row is removed by the tenant  *)
(* filter appears nowhere in the resolved forest, even when the menu       *)
(* itself passes every filter.                                             *)
(***************************************************************************)
ForeignTenant(m, u) == m.tenant_id # NULL /\ m.tenant_id # u.tenant_id

OrphanDropping ==
    Resolved =>
        \A m \in Range(menus) :
            (m.parent_id # NULL /\ ForeignTenant(menus[m.parent_id], Subject))
                => m.id \notin ForestIds(response.menus)

\* a super-admin of tenant 1: menu 1 is a root of tenant 2, menu 2 a global
\* child of it, menu 3 a global root; only menu 3 is returned
OrphanDroppingWitness ==
    /\ Resolved
    /\ SuperAdminUser(Subject)
    /\ Subject.tenant_id = 1
    /\ Len(menus) = 3
    /\ menus[1].tenant_id = 2 /\ menus[1].parent_id = NULL
    /\ menus[2].tenant_id = NULL /\ menus[2].parent_id = 1
    /\ menus[3].tenant_id = NULL /\ menus[3].parent_id = NULL
    /\ response.menus = <<[id |-> 3, children |-> <<>>]>>

(***************************************************************************)
(* C8 - The resolved menu forest is at most two levels deep for every set  *)
(* of menu rows the store can hold: every child of a root has no children. *)
(***************************************************************************)
TwoLevelForest ==
    Resolved =>
        \A i \in DOMAIN response.menus :
            \A j \in DOMAIN response.menus[i].children :
                response.menus[i].children[j].children = <<>>

(***************************************************************************)
(* C9 - Full replace: after an assignment request with a list of distinct  *)
(* existing ids has committed, the owner's association rows are exactly    *)
(* the ids of the list, whatever they were before, also when the same      *)
(* request is sent twice; for set_user_roles, set_role_menus and           *)
(* set_role_features alike.                                                *)
(***************************************************************************)
\* the target ids the association table links to the owner
TargetsOf(table, owner) == {row[2] : row \in {x \in table : x[1] = owner}}

\* the request named `name` was answered last, for an existing owner and a list
\* of distinct ids of existing rows
ReplaceRequested(name, owner_table, target_table) ==
    /\ response.op = name
    /\ Found(owner_table, response.owner)
    /\ NoDuplicates(response.ids)
    /\ \A i \in DOMAIN response.ids : Found(target_table, response.ids[i])

FullReplace ==
    /\ ReplaceRequested("set_user_roles", users, roles) =>
          /\ response.status = 204
          /\ TargetsOf(user_roles, response.owner) = Range(response.ids)
    /\ ReplaceRequested("set_role_menus", roles, menus) =>
          /\ response.status = 204
          /\ TargetsOf(role_menus, response.owner) = Range(response.ids)
    /\ ReplaceRequested("set_role_features", roles, features) =>
          /\ response.status = 204
          /\ TargetsOf(role_features, response.owner) = Range(response.ids)

\* role 1, whose menus were drawn, has been given the menus [2, 1]
FullReplaceWitness ==
    /\ ReplaceRequested("set_role_menus", roles, menus)
    /\ response.owner = 1
    /\ response.ids = <<2, 1>>
    /\ user_roles = SeedLinks
    /\ TargetsOf(role_menus, 1) = {1, 2}

(***************************************************************************)
(* C10 - Transactional atomicity: when the insert of an assignment request *)
(* fails, every association row that existed before the request is still   *)
(* there once the request has ended (the delete is rolled back).           *)
(***************************************************************************)
TransactionalAtomicity ==
    [][(response'.op \in AssignOps /\ response'.status = 409)
          => UNCHANGED <<user_roles, role_features, role_menus>>]_vars

\* set_role_features(role 1, [1, 1]) has failed on the repeated key while
\* role 1 keeps the feature 2 it had
TransactionalAtomicityWitness ==
    /\ response.op = "set_role_features"
    /\ response.owner = 1
    /\ response.ids = <<1, 1>>
    /\ response.status = 409
    /\ TargetsOf(role_features, 1) = {2}

(***************************************************************************)
(* C13 - Duplicate target ids collapse: an assignment request for an       *)
(* existing owner whose list of existing ids names an id more than once    *)
(* succeeds and leaves the owner linked to each distinct id of the list.   *)
(***************************************************************************)
\* the request named `name` was answered last, for an existing owner and a list
\* of ids of existing rows that repeats an id
DuplicatesRequested(name, owner_table, target_table) ==
    /\ response.op = name
    /\ Found(owner_table, response.owner)
    /\ ~NoDuplicates(response.ids)
    /\ \A i \in DOMAIN response.ids : Found(target_table, response.ids[i])

DuplicateCollapse ==
    /\ DuplicatesRequested("set_user_roles", users, roles) =>
          /\ response.status = 204
          /\ TargetsOf(user_roles, response.owner) = Range(response.ids)
    /\ DuplicatesRequested("set_role_menus", roles, menus) =>
          /\ response.status = 204
          /\ TargetsOf(role_menus, response.owner) = Range(response.ids)
    /\ DuplicatesRequested("set_role_features", roles, features) =>
          /\ response.status = 204
          /\ TargetsOf(role_features, response.owner) = Range(response.ids)

(***************************************************************************)
(* C11 - No observable partial replacement: while an assignment request    *)
(* replaces an owner's non-empty set of targets A by a non-empty list B,   *)
(* what a get_user_roles read or a resolution in another request reads     *)
(* for that owner is A or B, never the state between the delete and the    *)
(* insert.                                                                 *)
(***************************************************************************)
\* request w is an assignment request that passed the lookups of its router
Replacing(w) == sessions[w].kind \in AssignOps /\ sessions[w].status # 404

\* the targets the owner of request w had when its delete statement ran (or has
\* now, if it has not run yet)
Before(w) ==
    IF sessions[w].pc = "delete"
    THEN TargetsOf(AssocOf(sessions[w].kind), sessions[w].owner)
    ELSE {row[2] : row \in sessions[w].tx.deleted}

\* the targets request w asks for
Requested(w) == Range(sessions[w].ids)

\* request r is a login with valid credentials that has run the statement that
\* leaves it at one of `pcs`
LoginAt(r, pcs) ==
    sessions[r].kind = "login" /\ sessions[r].status # 401 /\ sessions[r].pc \in pcs

\* the ids of a list of rows
RowIds(rows) == {rows[i].id : i \in DOMAIN rows}

LoginContextConsistency ==
    \A r \in Requests :
        (LoginAt(r, {"done"}) /\ sessions[r].status = 200) =>
            sessions[r].roles =
                [i \in DOMAIN sessions[r].role_ids |-> roles[sessions[r].role_ids[i]].code]

(***************************************************************************)
(* C12 - Last-writer-wins: when two assignment requests for the same owner *)
(* run at the same time and both are answered without error, the owner's   *)
(* targets are exactly those of one of the two lists, never a mixture.     *)
(***************************************************************************)
\* request k is an assignment request that has been answered 204
Replaced(k) ==
    sessions[k].kind \in AssignOps /\ sessions[k].pc = "done" /\ sessions[k].status = 204

LastWriterWins ==
    \A a \in Requests, b \in Requests :
        ( /\ a # b
          /\ Replaced(a)
          /\ Replaced(b)
          /\ sessions[a].kind = sessions[b].kind
          /\ sessions[a].owner = sessions[b].owner )
        => TargetsOf(AssocOf(sessions[a].kind), sessions[a].owner)
              \in {Requested(a), Requested(b)}

(***************************************************************************)
(* C14 - Soft-deleted rows never contribute to resolution: after any       *)
(* sequence of update, soft-delete and assignment requests, a soft-deleted *)
(* role gives the user no role code (a soft-deleted SYSTEM_ADMIN role no   *)
(* super-admin override), no feature and no menu, and a soft-deleted       *)
(* feature or menu is in no resolved result, super-admin included; a soft  *)
(* delete keeps the row and every association row.                         *)
(***************************************************************************)
\* the resolved result holds nothing that only a soft-deleted row would give
ExcludesSoftDeleted ==
    /\ \A f \in Range(features) : f.is_deleted => f.code \notin Range(response.permissions)
    /\ \A m \in Range(menus) : m.is_deleted => m.id \notin ForestIds(response.menus)
    /\ response.is_super_admin => SuperAdminUser(Subject)
    /\ ~response.is_super_admin =>
          /\ \A i \in DOMAIN response.permissions :
                \E f \in Range(features), rid \in AssignedRoleIds(Subject) :
                    f.code = response.permissions[i] /\ <<rid, f.id>> \in role_features
          /\ \A id \in ForestIds(response.menus) :
                \E rid \in AssignedRoleIds(Subject) : <<rid, id>> \in role_menus

SoftDeleteOps == {"soft_delete_role", "soft_delete_feature", "soft_delete_menu"}

\* the table a soft-delete operation marks a row of, among the three given
SoftDeleteTable(op, role_rows, feature_rows, menu_rows) ==
    CASE op = "soft_delete_role" -> role_rows
      [] op = "soft_delete_feature" -> feature_rows
      [] op = "soft_delete_menu" -> menu_rows

SoftDeleteExclusion ==
    [][ /\ (response'.op = "resolve") => ExcludesSoftDeleted'
        /\ (response'.op \in SoftDeleteOps /\ response'.status = 204) =>
              /\ UNCHANGED <<user_roles, role_features, role_menus>>
              /\ Len(roles') = Len(roles)
              /\ Len(features') = Len(features)
              /\ Len(menus') = Len(menus)
              /\ SoftDeleteTable(response'.op, roles', features', menus')[response'.id].is_deleted
      ]_vars

\* the SYSTEM_ADMIN role and feature 1 are soft-deleted and still linked; user 1
\* is resolved as no super-admin, with no permission, and with menu 1 of the
\* manager role
SoftDeleteExclusionWitness ==
    /\ Resolved
    /\ roles[1].is_deleted
    /\ ~roles[2].is_deleted
    /\ features[1].is_deleted
    /\ user_roles = {<<1, 1>>, <<1, 2>>}
    /\ <<2, 1>> \in role_features
    /\ ~response.is_super_admin
    /\ response.permissions = <<>>
    /\ response.menus = <<[id |-> 1, children |-> <<>>]>>

(***************************************************************************)
(* C15 - The role resolver returns exactly the roles linked to the user    *)
(* with is_deleted = false, active or not: a role deactivated by           *)
(* update_role still grants its features and menus, and an inactive        *)
(* SYSTEM_ADMIN role still grants the super-admin override.                *)
(***************************************************************************)
\* the live features and the live root menus granted to role rid
GrantedFeatureCodes(rid) == {f.code : f \in {x \in LiveFeatures : <<rid, x.id>> \in role_features}}

GrantedRootMenuIds(rid) ==
    {m.id : m \in {x \in Range(menus) : /\ <<rid, x.id>> \in role_menus
                                         /\ x.parent_id = NULL
                                         /\ x.tenant_id = NULL
                                         /\ x.is_active /\ ~x.is_deleted}}

InactiveRolesResolve ==
    /\ (response.op = "get_user_roles" /\ response.status = 200) =>
          /\ Range(response.role_ids) = AssignedRoleIds(users[response.user_id])
          /\ NoDuplicates(response.role_ids)
    /\ Resolved =>
          \A rid \in AssignedRoleIds(Subject) :
              ~roles[rid].is_active =>
                  /\ EqualsIgnoreCase(roles[rid].code, SYSTEM_ADMIN_ROLE_CODE)
                        => response.is_super_admin
                  /\ ~response.is_super_admin =>
                        /\ GrantedFeatureCodes(rid) \subseteq Range(response.permissions)
                        /\ GrantedRootMenuIds(rid) \subseteq ForestIds(response.menus)

\* user 1 holds only the manager role, which update_role has deactivated, and
\* is resolved with the feature and the menu of that role
InactiveRolesResolveWitness ==
    /\ Resolved
    /\ user_roles = {<<1, 2>>}
    /\ ~roles[2].is_active
    /\ ~roles[2].is_deleted
    /\ ~response.is_super_admin
    /\ response.permissions = <<FeatureCodes[1]>>
    /\ response.menus = <<[id |-> 1, children |-> <<>>]>>

SystemAdministrator(u) ==
    /\ u.tenant_id = NULL
    /\ u.role \in {"ADMIN", "SUPER_ADMIN"} \/ HoldsSystemAdminRole(u)

\* u is the admin of a tenant
TenantAdmin(u) == u.role = "ADMIN" /\ u.tenant_id # NULL /\ ~HoldsSystemAdminRole(u)

SystemAdminOnlyTenants ==
    [][ response'.op \in TenantOps =>
          /\ response'.status \in {200, 201, 204} => SystemAdministrator(users[GateCaller])
          /\ TenantAdmin(users[GateCaller]) =>
                (response'.status = 403 /\ UNCHANGED tenants) ]_vars

(***************************************************************************)
(* C17 - Assigning roles to users and menus or features to roles is        *)
(* possible only for a System Admin: a caller with a tenant_id does not    *)
(* pass the gate of these endpoints and no association row changes on      *)
(* their request.                                                          *)
(***************************************************************************)
SystemAdminOnlyAssignments ==
    [][ (response'.op \in AssignOps /\ users[GateCaller].tenant_id # NULL) =>
            /\ response'.status = 403
            /\ UNCHANGED <<user_roles, role_features, role_menus>> ]_vars

(***************************************************************************)
(* C18 - Over any sequence of register calls, two requests interleaved at  *)
(* the count and the insert included, exactly the first registered user    *)
(* has legacy role ADMIN and every later one has role USER.                *)
(***************************************************************************)
FirstUserOnlyAdmin ==
    \A i \in DOMAIN users : users[i].role = IF i = 1 THEN "ADMIN" ELSE "USER"

(***************************************************************************)
(* C21 - Role code uniqueness per tenant: in every reachable state, two    *)
(* create_role calls for the same (tenant_id, code) interleaved between    *)
(* the lookup and the commit included, no two non-deleted roles have the   *)
(* same tenant_id (NULL counted as a value) and the same code.             *)
(***************************************************************************)
RoleCodeUniqueness ==
    \A i, j \in DOMAIN roles :
        (i # j /\ ~roles[i].is_deleted /\ ~roles[j].is_deleted)
            => <<roles[i].tenant_id, roles[i].code>> # <<roles[j].tenant_id, roles[j].code>>

(***************************************************************************)
(* C22 - Every read of RBAC data filters out soft-deleted rows:            *)
(* GET /rbac/roles/{role_id}/menus and GET /rbac/roles/{role_id}/features  *)
(* return no menu and no feature that is soft-deleted.                     *)
(***************************************************************************)
RoleReadsExcludeSoftDeleted ==
    (response.op \in {"get_role_menus", "get_role_features"} /\ response.status = 200)
        => \A i \in DOMAIN response.rows : response.rows[i].is_deleted = FALSE

(***************************************************************************)
(* C23 - Each menu id appears at most once in the whole resolved forest,   *)
(* roots and children together, also when the menu is granted to the user  *)
(* through several of their roles.                                         *)
(***************************************************************************)
\* the ids of all nodes of a forest, one entry per node
RECURSIVE ForestIdList(_)
ForestIdList(forest) ==
    IF forest = <<>> THEN <<>>
    ELSE <<forest[1].id>> \o ForestIdList(forest[1].children) \o ForestIdList(Tail(forest))

MenuOnceInForest == Resolved => NoDuplicates(ForestIdList(response.menus))

\* a menu granted through two roles of the user is in the forest
MenuOnceInForestWitness ==
    /\ Resolved
    /\ ~response.is_super_admin
    /\ \E m \in DOMAIN menus :
          /\ {<<1, m>>, <<2, m>>} \subseteq role_menus
          /\ {<<Subject.id, 1>>, <<Subject.id, 2>>} \subseteq user_roles
          /\ m \in ForestIds(response.menus)
          /\ menus[m].parent_id # NULL

(***************************************************************************)
(* C24 - soft_delete_menu(P) changes no other row than P (the children     *)
(* keep is_deleted = false and their parent_id), and no child of a parent  *)
(* that is soft-deleted, inactive or, for a user who is not super-admin,   *)
(* not assigned to any of the user's roles appears in the resolved forest. *)
(***************************************************************************)
\* menu p is not among the rows the resolver selects for the resolved user
ParentFilteredOut(p) ==
    \/ menus[p].is_deleted
    \/ ~menus[p].is_active
    \/ /\ ~response.is_super_admin
       /\ ~\E rid \in AssignedRoleIds(Subject) : <<rid, p>> \in role_menus

ChildrenOfHiddenParent ==
    Resolved =>
        \A c \in DOMAIN menus :
            (menus[c].parent_id # NULL /\ ParentFilteredOut(menus[c].parent_id))
                => c \notin ForestIds(response.menus)

SoftDeleteMenuKeepsChildren ==
    (response'.op = "soft_delete_menu" /\ response'.status = 204) =>
        /\ DOMAIN menus' = DOMAIN menus
        /\ menus'[response'.id].is_deleted
        /\ \A c \in DOMAIN menus : c # response'.id => menus'[c] = menus[c]

HiddenParentHidesChildren ==
    [][SoftDeleteMenuKeepsChildren /\ ChildrenOfHiddenParent']_vars

\* menu 1 is soft-deleted, its child is untouched and granted to the role of
\* the user, and the forest resolved for the user does not contain the child
HiddenParentHidesChildrenWitness ==
    /\ Resolved
    /\ ~response.is_super_admin
    /\ menus[1].is_deleted
    /\ \E c \in DOMAIN menus :
          /\ menus[c].parent_id = 1
          /\ ~menus[c].is_deleted /\ menus[c].is_active
          /\ \E rid \in AssignedRoleIds(Subject) : <<rid, c>> \in role_menus
          /\ c \notin ForestIds(response.menus)

(***************************************************************************)
(* C25 - Frame of the full-replace mutators: set_user_roles(u, ids)        *)
(* changes only the user_roles rows of user u, set_role_menus(r, ids) only *)
(* the role_menus rows of role r, set_role_features(r, ids) only the       *)
(* role_features rows of role r; the rows of every other owner, the two    *)
(* other association tables and all entity tables stay as they were.       *)
(***************************************************************************)
\* the rows of an association table that belong to other owners
RowsOfOthers(table, owner) == {row \in table : row[1] # owner}

ReplaceFrame ==
    [][ response'.op \in AssignOps =>
          /\ UNCHANGED <<users, roles, features, menus, tenants>>
          /\ response'.op = "set_user_roles" =>
                /\ RowsOfOthers(user_roles', response'.owner)
                      = RowsOfOthers(user_roles, response'.owner)
                /\ UNCHANGED <<role_menus, role_features>>
          /\ response'.op = "set_role_menus" =>
                /\ RowsOfOthers(role_menus', response'.owner)
                      = RowsOfOthers(role_menus, response'.owner)
                /\ UNCHANGED <<user_roles, role_features>>
          /\ response'.op = "set_role_features" =>
                /\ RowsOfOthers(role_features', response'.owner)
                      = RowsOfOthers(role_features, response'.owner)
                /\ UNCHANGED <<user_roles, role_menus>> ]_vars

\* a replacement has committed for one owner while another owner has rows in
\* the same table
ReplaceFrameWitness ==
    /\ response.op \in AssignOps
    /\ response.status = 204
    /\ response.ids # <<>>
    /\ RowsOfOthers(AssocOf(response.op), response.owner) # {}
    /\ TargetsOf(AssocOf(response.op), response.owner) = Range(response.ids)

(***************************************************************************)
(* C26 - No privilege escalation by a tenant admin: with only requests     *)
(* authenticated as a user who has a tenant_id, legacy role ADMIN and no   *)
(* SYSTEM_ADMIN role, no state is reached in which resolution treats a     *)
(* user with a tenant_id as super-admin.                                   *)
(***************************************************************************)
NoTenantSuperAdmin ==
    (Resolved /\ Subject.tenant_id # NULL) => ~response.is_super_admin

(***************************************************************************)
(* C27 - A user's tenant_id is never changed by a request of a caller with *)
(* legacy role USER: PUT /api/account/{user_id} by such a caller is        *)
(* rejected when user_id is not the caller's id, and otherwise leaves the  *)
(* tenant_id of the target as it was.                                      *)
(***************************************************************************)
TenantFixedForUsers ==
    [][ (response'.op = "update_user" /\ users[response'.caller].role = "USER") =>
          /\ response'.id # response'.caller => response'.status = 403
          /\ \A i \in DOMAIN users : users'[i].tenant_id = users[i].tenant_id ]_vars

(***************************************************************************)
(* C28 - Once soft_delete_user(U) has committed, U is no longer accepted   *)
(* as an authenticated principal: login and login_with_context for U fail  *)
(* with 401, and every later request that presents a token issued to U is  *)
(* rejected by get_current_user.                                           *)
(***************************************************************************)
AccountOps == {"read_all_users", "update_user", "soft_delete_user"}

DeletedUserRejected ==
    [][ /\ (response'.op \in {"login", "login_with_context"}
              /\ response'.user_id \in DOMAIN users
              /\ users[response'.user_id].is_deleted) => response'.status = 401
        /\ (response'.op \in AccountOps /\ users[response'.caller].is_deleted)
              => response'.status = 401 ]_vars

(***************************************************************************)
(* C29 - Re-creation after soft delete: create_feature(code C) fails with  *)
(* a conflict if and only if a feature with code C and is_deleted = false  *)
(* exists; when the only feature with code C is soft-deleted it succeeds   *)
(* and adds a new non-deleted feature with code C.  The same rule holds    *)
(* for create_tenant (code) and create_role ((tenant_id, code)).           *)
(***************************************************************************)
\* the keys of a table whose rows are unique by code, with the deletion marks
CodeKeys(table) ==
    [i \in DOMAIN table |-> [key |-> table[i].code, is_deleted |-> table[i].is_deleted]]

\* the keys of the roles table: (tenant_id, code)
TenantCodeKeys(table) ==
    [i \in DOMAIN table |-> [key |-> <<table[i].tenant_id, table[i].code>>,
                             is_deleted |-> table[i].is_deleted]]

\* a non-deleted row has the key
LiveKey(keys, key) ==
    \E i \in DOMAIN keys : keys[i].key = key /\ keys[i].is_deleted = FALSE

\* the create request answered 409 exactly when a live row had the key, and
\* otherwise appended a live row with the key
CreatedUnlessLive(before, after, key) ==
    /\ response'.status = 409 <=> LiveKey(before, key)
    /\ ~LiveKey(before, key) =>
          /\ response'.status = 201
          /\ Len(after) = Len(before) + 1
          /\ after[Len(after)] = [key |-> key, is_deleted |-> FALSE]

RecreateAfterSoftDelete ==
    [][ /\ response'.op = "create_feature" =>
              CreatedUnlessLive(CodeKeys(features), CodeKeys(features'), response'.code)
        /\ response'.op = "create_tenant" =>
              CreatedUnlessLive(CodeKeys(tenants), CodeKeys(tenants'), response'.code)
        /\ response'.op = "create_role" =>
              CreatedUnlessLive(TenantCodeKeys(roles), TenantCodeKeys(roles'),
                                <<response'.tenant_id, response'.code>>) ]_vars

(***************************************************************************)
(* C30 - build_menu_tree ends for every list of rows with distinct ids,    *)
(* rows whose parent_id values form a cycle included: the rows on a cycle  *)
(* are in no returned node, and every returned node is reached through a   *)
(* chain of parent_id links that ends at a row with parent_id null.        *)
(***************************************************************************)
InputIds == {tree_input[i].id : i \in DOMAIN tree_input}

\* the row met after k parent_id links from row id, NULL past the end
RECURSIVE AncestorAt(_, _)
AncestorAt(id, k) ==
    IF k = 0 THEN id
    ELSE LET a == AncestorAt(id, k - 1)
         IN  IF a \in InputIds THEN InputRow(a).parent_id ELSE NULL

\* following parent_id from row id comes back to row id
OnCycle(id) == \E k \in 1..Len(tree_input) : AncestorAt(id, k) = id

\* following parent_id from row id ends at a row whose parent_id is null
ReachesRoot(id) ==
    \E k \in 0..(Len(tree_input) - 1) :
        /\ AncestorAt(id, k) \in InputIds
        /\ InputRow(AncestorAt(id, k)).parent_id = NULL

CyclesOmitted ==
    response.op = "build_menu_tree" =>
        /\ \A id \in InputIds : OnCycle(id) => id \notin ForestIds(response.menus)
        /\ \A id \in ForestIds(response.menus) : id \in InputIds /\ ReachesRoot(id)

\* rows 2 and 3 are each other's parent and row 1 is a root: only row 1 is
\* returned
CyclesOmittedWitness ==
    /\ response.op = "build_menu_tree"
    /\ Len(tree_input) = 3
    /\ InputRow(1).parent_id = NULL
    /\ InputRow(2).parent_id = 3
    /\ InputRow(3).parent_id = 2
    /\ response.menus = <<[id |-> 1, children |-> <<>>]>>

====
